---- MODULE Spec2Model ----
(***************************************************************************)
(* Progress synchronisation of the quiz backend: POST /sync-progress       *)
(* (handleSyncData, syncQuizSession, syncQuizResult, getLatestServerData), *)
(* the storage helper executeQuery and the saveQuizResults helper.         *)
(*                                                                         *)
(* The store is the pair of tables quiz_sessions / quiz_results as the     *)
(* queries of the code use them: at most one row per session_id and per    *)
(* result_id (the ON CONFLICT (session_id) / ON CONFLICT (result_id)       *)
(* targets of manual-sync and the onConflict: 'result_id' of               *)
(* saveQuizResults need these unique indexes).  Timestamps are instants,   *)
(* modelled as naturals; `new Date(a) > new Date(b)` is a > b on them.     *)
(***************************************************************************)
EXTENDS Integers, Sequences, FiniteSets, TLC

\* ------------------------------------------------------------------ bounds
\* Device timestamps (updated_at, created_at) range over 1..MaxTime.
MaxTime == 2

Owners == {"A", "B"}
SessionIds == {"s1", "s2"}
ResultIds == {"r1", "r2"}
Times == 1..MaxTime

NULL == "null"

\* ------------------------------------------------------------------ records
\* The n-th element of the status enum, cycling (a device moves a session
\* through its lifecycle as it mutates it).
StatusOf(t) ==
  LET enum == <<"started", "completed", "in_progress", "abandoned">>
  IN enum[((t - 1) % 4) + 1]

\* A QuizSession as a device uploads it: version t of session sid.  Every
\* mutation on the device bumps updated_at, so the content is the content
\* of that version.  The score stays within the 0..100 of QuizSessionSchema.
MkSession(sid, t) ==
  [session_id |-> sid,
   quiz_type |-> IF t % 2 = 1 THEN "standard" ELSE "timed",
   category |-> IF t % 2 = 1 THEN "general" ELSE "music",
   status |-> StatusOf(t),
   current_question |-> t,
   total_questions |-> 10 + t,
   score |-> (10 * t) % 101,
   time_spent |-> 30 * t,
   started_at |-> t - 1,
   updated_at |-> t,
   metadata |-> IF t % 2 = 1 THEN NULL ELSE "hard"]

\* A QuizResult as a device uploads it: result rid, created at t.
MkResult(rid, t) ==
  [result_id |-> rid,
   session_id |-> IF rid = "r1" THEN "s1" ELSE "s2",
   question_id |-> "q1",
   selected_answer |-> t,
   is_correct |-> (t % 2 = 1),
   time_taken |-> 5 * t,
   created_at |-> t,
   metadata |-> IF t % 2 = 1 THEN NULL ELSE "bonus"]

SessionInputs == {MkSession(sid, t) : sid \in SessionIds, t \in Times}
\* Results are created at one of two instants.
ResultTimes == {1, 2}
ResultInputs == {MkResult(rid, t) : rid \in ResultIds, t \in ResultTimes}

\* JSON.stringify(x.metadata || {}): a metadata object is written here by its
\* JSON text, an absent one by NULL.
JSONStringifyMetadata(metadata) ==
  IF metadata = NULL THEN "{}" ELSE metadata

\* ------------------------------------------------------------------ storage
\* A table maps each key to the sequence of its rows: none or one.
\* executeQuery: never throws.  A failed query has no effect on the store
\* and returns {data: null, error}; a successful one returns {data, error: null}.
\* (the null data is written as no rows: every caller reads it through
\* `x.data && x.data.length > 0` or `x.data || []`).
executeQuery(failed, data) ==
  IF failed THEN [data |-> <<>>, error |-> "error"]
  ELSE [data |-> data, error |-> NULL]

\* SELECT * FROM quiz_sessions WHERE session_id = $1 AND user_id = $2
SelectSession(sessions, sid, userId) ==
  SelectSeq(sessions[sid], LAMBDA row : row.user_id = userId)

\* UPDATE quiz_sessions SET time_spent = time_spent + $6 ...: a sync that adds
\* the uploaded seconds to the stored ones instead of replacing them.
UpdateSessionAddsTime(sessions, userId, session) ==
  IF SelectSession(sessions, session.session_id, userId) # <<>>
    THEN [sessions EXCEPT ![session.session_id][1] =
            [@ EXCEPT !.status = session.status,
                      !.current_question = session.current_question,
                      !.score = session.score,
                      !.time_spent = @ + session.time_spent,
                      !.updated_at = session.updated_at,
                      !.metadata = JSONStringifyMetadata(session.metadata)]]
    ELSE sessions

\* UPDATE quiz_sessions SET quiz_type = ..., category = ..., total_questions =
\* ..., started_at = ..., and the mutable columns: a sync that replaces the
\* whole record of the session with the uploaded one.
UpdateSessionReplacesRecord(sessions, userId, session) ==
  IF SelectSession(sessions, session.session_id, userId) # <<>>
    THEN [sessions EXCEPT ![session.session_id][1] =
            [@ EXCEPT !.quiz_type = session.quiz_type,
                      !.category = session.category,
                      !.total_questions = session.total_questions,
                      !.started_at = session.started_at,
                      !.status = session.status,
                      !.current_question = session.current_question,
                      !.score = session.score,
                      !.time_spent = session.time_spent,
                      !.updated_at = session.updated_at,
                      !.metadata = JSONStringifyMetadata(session.metadata)]]
    ELSE sessions

\* UPDATE quiz_sessions SET status = $3, current_question = $4, score = $5,
\* time_spent = $6, updated_at = $7, metadata = $8
\* WHERE session_id = $1 AND user_id = $2
UpdateSession(sessions, userId, session) ==
  IF SelectSession(sessions, session.session_id, userId) # <<>>
    THEN [sessions EXCEPT ![session.session_id][1] =
            [@ EXCEPT !.status = session.status,
                      !.current_question = session.current_question,
                      !.score = session.score,
                      !.time_spent = session.time_spent,
                      !.updated_at = session.updated_at,
                      !.metadata = JSONStringifyMetadata(session.metadata)]]
    ELSE sessions

\* INSERT INTO quiz_sessions (session_id, user_id, quiz_type, category, status,
\* current_question, total_questions, score, time_spent, started_at,
\* updated_at, metadata) VALUES (...).  session_id is unique in the table (it
\* is the ON CONFLICT (session_id) target of manual-sync's batchUploadSessions):
\* a row with this session_id, of any owner, makes the insert fail and leaves
\* the table as it is.
InsertSession(sessions, userId, session) ==
  IF sessions[session.session_id] # <<>>
    THEN sessions
    ELSE [sessions EXCEPT ![session.session_id] =
           <<[session_id |-> session.session_id,
             user_id |-> userId,
             quiz_type |-> session.quiz_type,
             category |-> session.category,
             status |-> session.status,
             current_question |-> session.current_question,
             total_questions |-> session.total_questions,
             score |-> session.score,
             time_spent |-> session.time_spent,
             started_at |-> session.started_at,
             completed_at |-> <<>>,
             updated_at |-> session.updated_at,
             metadata |-> JSONStringifyMetadata(session.metadata)]>>]

\* SELECT * FROM quiz_results WHERE result_id = $1 AND user_id = $2
SelectResult(results, rid, userId) ==
  SelectSeq(results[rid], LAMBDA row : row.user_id = userId)

\* The row an INSERT INTO quiz_results (...) VALUES (...) writes.
ResultRow(userId, result) ==
  [result_id |-> result.result_id,
   session_id |-> result.session_id,
   user_id |-> userId,
   question_id |-> result.question_id,
   selected_answer |-> result.selected_answer,
   is_correct |-> result.is_correct,
   time_taken |-> result.time_taken,
   created_at |-> result.created_at,
   metadata |-> JSONStringifyMetadata(result.metadata)]

\* INSERT INTO quiz_results (...) VALUES (...): fails on the unique index when
\* a row with this result_id exists.
InsertResult(results, userId, result) ==
  IF results[result.result_id] # <<>>
    THEN results
    ELSE [results EXCEPT ![result.result_id] = <<ResultRow(userId, result)>>]

\* ------------------------------------------------------------------ sync helpers
\* The storage failures injected into the two queries of one item.
NoFailure == [read |-> FALSE, write |-> FALSE]

\* syncQuizSession after its SELECT, with the conflict check dropped: the
\* incoming session is written whatever the stored updated_at.
syncQuizSessionWriteUnchecked(sessions, userId, session, existingSession, writeFails) ==
  IF Len(existingSession.data) > 0
    THEN [sessions |-> IF writeFails THEN sessions
                       ELSE UpdateSession(sessions, userId, session),
          success |-> TRUE, conflict |-> <<>>]
    ELSE [sessions |-> IF writeFails THEN sessions
                       ELSE InsertSession(sessions, userId, session),
          success |-> TRUE, conflict |-> <<>>]

\* syncQuizSession after its SELECT: the conflict check, then the UPDATE or
\* the INSERT.  The value executeQuery returns for the write is not looked at.
syncQuizSessionWrite(sessions, userId, session, existingSession, writeFails) ==
  IF Len(existingSession.data) > 0
    THEN LET existing == existingSession.data[1]
         IN IF existing.updated_at > session.updated_at
              THEN [sessions |-> sessions,
                    success |-> FALSE,
                    conflict |-> <<[server_data |-> existing,
                                    client_data |-> session,
                                    resolution |-> "server_wins"]>>]
              ELSE [sessions |-> IF writeFails THEN sessions
                                 ELSE UpdateSession(sessions, userId, session),
                    success |-> TRUE, conflict |-> <<>>]
    ELSE [sessions |-> IF writeFails THEN sessions
                       ELSE InsertSession(sessions, userId, session),
          success |-> TRUE, conflict |-> <<>>]

syncQuizSession(sessions, userId, session, f) ==
  LET existingSession ==
        executeQuery(f.read, SelectSession(sessions, session.session_id, userId))
  IN syncQuizSessionWrite(sessions, userId, session, existingSession, f.write)

\* syncQuizResult after its SELECT: a stored result newer than the incoming
\* one is a conflict, any other stored result a duplicate; else the INSERT.
syncQuizResultWrite(results, userId, result, existingResult, writeFails) ==
  IF Len(existingResult.data) > 0
    THEN LET existing == existingResult.data[1]
         IN IF existing.created_at > result.created_at
              THEN [results |-> results,
                    success |-> FALSE,
                    conflict |-> <<[server_data |-> existing,
                                    client_data |-> result,
                                    resolution |-> "server_wins"]>>]
              ELSE [results |-> results, success |-> TRUE, conflict |-> <<>>]
    ELSE [results |-> IF writeFails THEN results
                      ELSE InsertResult(results, userId, result),
          success |-> TRUE, conflict |-> <<>>]

syncQuizResult(results, userId, result, f) ==
  LET existingResult ==
        executeQuery(f.read, SelectResult(results, result.result_id, userId))
  IN syncQuizResultWrite(results, userId, result, existingResult, f.write)

\* ------------------------------------------------------------------ handleSyncData
EmptySyncResults ==
  [synced_sessions |-> <<>>, synced_results |-> <<>>,
   failed_sessions |-> <<>>, failed_results |-> <<>>,
   conflicts |-> <<>>]

\* The session loop's filing with a conflict kept apart from the failures:
\* a rejected stale session goes to conflicts and not to failed_sessions.
FileSessionConflictApart(syncResults, session, result) ==
  IF result.success
    THEN [syncResults EXCEPT !.synced_sessions = Append(@, session.session_id)]
  ELSE IF result.conflict # <<>>
    THEN [syncResults EXCEPT
            !.conflicts = Append(@, [type |-> "session",
                                     id |-> session.session_id,
                                     conflict |-> result.conflict[1]])]
  ELSE [syncResults EXCEPT !.failed_sessions = Append(@, session.session_id)]

\* One pass of the session loop: the outcome of syncQuizSession filed into
\* syncResults.
FileSession(syncResults, session, result) ==
  IF result.success
    THEN [syncResults EXCEPT !.synced_sessions = Append(@, session.session_id)]
    ELSE [syncResults EXCEPT
            !.failed_sessions = Append(@, session.session_id),
            !.conflicts = IF result.conflict # <<>>
                            THEN Append(@, [type |-> "session",
                                            id |-> session.session_id,
                                            conflict |-> result.conflict[1]])
                            ELSE @]

\* One pass of the result loop.
FileResult(syncResults, result, syncResult) ==
  IF syncResult.success
    THEN [syncResults EXCEPT !.synced_results = Append(@, result.result_id)]
    ELSE [syncResults EXCEPT
            !.failed_results = Append(@, result.result_id),
            !.conflicts = IF syncResult.conflict # <<>>
                            THEN Append(@, [type |-> "result",
                                            id |-> result.result_id,
                                            conflict |-> syncResult.conflict[1]])
                            ELSE @]

RECURSIVE SyncSessionsLoopAborts(_, _, _, _, _, _)
\* The session loop with the try/catch around the loop instead of inside it:
\* the first item with a failed query ends the loop.
SyncSessionsLoopAborts(sessions, userId, list, fs, i, syncResults) ==
  IF i > Len(list) \/ fs[i].read \/ fs[i].write
    THEN [sessions |-> sessions, syncResults |-> syncResults]
    ELSE LET result == syncQuizSession(sessions, userId, list[i], fs[i])
         IN SyncSessionsLoopAborts(result.sessions, userId, list, fs, i + 1,
                                   FileSession(syncResults, list[i], result))

RECURSIVE SyncSessionsLoopStopsAtConflict(_, _, _, _, _, _)
\* The session loop ended by the first item that is rejected: the items
\* behind it are not synced.
SyncSessionsLoopStopsAtConflict(sessions, userId, list, fs, i, syncResults) ==
  IF i > Len(list)
    THEN [sessions |-> sessions, syncResults |-> syncResults]
    ELSE LET result == syncQuizSession(sessions, userId, list[i], fs[i])
             filed == FileSession(syncResults, list[i], result)
         IN IF result.success
              THEN SyncSessionsLoopStopsAtConflict(result.sessions, userId, list, fs,
                                                   i + 1, filed)
              ELSE [sessions |-> result.sessions, syncResults |-> filed]

\* The passes lo..hi of the loop over quiz_sessions, in order: the pass of
\* one item, or the passes of the first half of the range and then, on the
\* table and the report they leave, those of the second half.
RECURSIVE SyncSessionsPasses(_, _, _, _, _, _, _)
SyncSessionsPasses(sessions, userId, list, fs, lo, hi, syncResults) ==
  IF lo > hi
    THEN [sessions |-> sessions, syncResults |-> syncResults]
  ELSE IF lo = hi
    THEN LET result == syncQuizSession(sessions, userId, list[lo], fs[lo])
         IN [sessions |-> result.sessions,
             syncResults |-> FileSession(syncResults, list[lo], result)]
  ELSE LET mid == (lo + hi) \div 2
           first == {SyncSessionsPasses(sessions, userId, list, fs, lo, mid, syncResults)}
       IN CHOOSE last \in
            {SyncSessionsPasses(half.sessions, userId, list, fs, mid + 1, hi,
                                half.syncResults) : half \in first} : TRUE

\* 1. for (const session of syncRequest.quiz_sessions), from item i on.
SyncSessionsLoop(sessions, userId, list, fs, i, syncResults) ==
  SyncSessionsPasses(sessions, userId, list, fs, i, Len(list), syncResults)

RECURSIVE SyncResultsPasses(_, _, _, _, _, _, _)
SyncResultsPasses(results, userId, list, fs, lo, hi, syncResults) ==
  IF lo > hi
    THEN [results |-> results, syncResults |-> syncResults]
  ELSE IF lo = hi
    THEN LET syncResult == syncQuizResult(results, userId, list[lo], fs[lo])
         IN [results |-> syncResult.results,
             syncResults |-> FileResult(syncResults, list[lo], syncResult)]
  ELSE LET mid == (lo + hi) \div 2
           first == {SyncResultsPasses(results, userId, list, fs, lo, mid, syncResults)}
       IN CHOOSE last \in
            {SyncResultsPasses(half.results, userId, list, fs, mid + 1, hi,
                               half.syncResults) : half \in first} : TRUE

\* 2. for (const result of syncRequest.quiz_results), from item i on.
SyncResultsLoop(results, userId, list, fs, i, syncResults) ==
  SyncResultsPasses(results, userId, list, fs, i, Len(list), syncResults)

\* Steps 1 and 2 of handleSyncData: both loops over the push batch.
Reconcile(sessions, results, userId, request, f) ==
  LET afterSessions ==
        SyncSessionsLoop(sessions, userId, request.quiz_sessions, f.sessions, 1,
                         EmptySyncResults)
      afterResults ==
        SyncResultsLoop(results, userId, request.quiz_results, f.results, 1,
                        afterSessions.syncResults)
  IN [sessions |-> afterSessions.sessions,
      results |-> afterResults.results,
      syncResults |-> afterResults.syncResults]

\* ------------------------------------------------------------------ delta
\* LIMIT 50 / LIMIT 100 of the two delta queries.
DeltaSessionLimit == 50
DeltaResultLimit == 100

Min(a, b) == IF a < b THEN a ELSE b

\* The rows of a table as a set.
Rows(table) == {table[k][1] : k \in {k \in DOMAIN table : table[k] # <<>>}}

\* Every order of the rows T, cut at limit.
Orders(T, limit) ==
  LET n == Min(Cardinality(T), limit)
  IN {q \in [1..n -> T] : \A i, j \in 1..n : i # j => q[i] # q[j]}

\* ORDER BY column DESC LIMIT limit over the rows S: every order of S that
\* descends by column (SQL leaves the order of equal keys open), cut at limit.
\* A tie-break fixes an order among the rows of each key that several rows
\* share; a row's place is behind the rows of greater keys and, among the
\* rows of its key, where the tie-break puts it.
OrderByDescLimit(S, column, limit) ==
  LET n == Min(Cardinality(S), limit)
      tier == [t \in {r[column] : r \in S} |-> {r \in S : r[column] = t}]
      tied == {t \in DOMAIN tier : Cardinality(tier[t]) > 1}
      tieOrders == UNION {Orders(tier[t], Cardinality(tier[t])) : t \in tied}
      tieBreaks == {tb \in [tied -> tieOrders] :
                      \A t \in tied : {tb[t][i] : i \in 1..Len(tb[t])} = tier[t]}
      above == [t \in DOMAIN tier |-> Cardinality({o \in S : o[column] > t})]
  IN {LET place == [r \in S |->
                      above[r[column]] +
                      (IF r[column] \in tied
                         THEN CHOOSE i \in 1..Len(tb[r[column]]) : tb[r[column]][i] = r
                         ELSE 1)]
      IN [i \in 1..n |-> CHOOSE r \in S : place[r] = i] : tb \in tieBreaks}

\* The delta without the owner filter of its two queries.
getLatestServerDataUnscoped(sessions, results, userId, lastSyncAt, now, f) ==
  LET sessionRows == {row \in Rows(sessions) : row.updated_at > lastSyncAt}
      resultRows == {row \in Rows(results) : row.created_at > lastSyncAt}
  IN {[quiz_sessions |-> qs, quiz_results |-> qr, server_timestamp |-> now] :
        qs \in OrderByDescLimit(sessionRows, "updated_at", DeltaSessionLimit),
        qr \in OrderByDescLimit(resultRows, "created_at", DeltaResultLimit)}

\* The delta with >= in place of > in its two queries.
getLatestServerDataInclusive(sessions, results, userId, lastSyncAt, now, f) ==
  LET sessionRows == {row \in Rows(sessions) :
                        row.user_id = userId /\ row.updated_at >= lastSyncAt}
      resultRows == {row \in Rows(results) :
                       row.user_id = userId /\ row.created_at >= lastSyncAt}
  IN {[quiz_sessions |-> qs, quiz_results |-> qr, server_timestamp |-> now] :
        qs \in OrderByDescLimit(sessionRows, "updated_at", DeltaSessionLimit),
        qr \in OrderByDescLimit(resultRows, "created_at", DeltaResultLimit)}

\* 3. getLatestServerData: the possible server_data of the response; a failed
\* query contributes `data || []`, no rows.  server_timestamp is new Date()
\* read after both queries have returned: now.
getLatestServerData(sessions, results, userId, lastSyncAt, now, f) ==
  LET sessionRows == {row \in Rows(sessions) :
                        row.user_id = userId /\ row.updated_at > lastSyncAt}
      resultRows == {row \in Rows(results) :
                       row.user_id = userId /\ row.created_at > lastSyncAt}
      sessionData == IF f.sessions THEN {<<>>}
                     ELSE OrderByDescLimit(sessionRows, "updated_at", DeltaSessionLimit)
      resultData == IF f.results THEN {<<>>}
                    ELSE OrderByDescLimit(resultRows, "created_at", DeltaResultLimit)
  IN {[quiz_sessions |-> qs, quiz_results |-> qr, server_timestamp |-> now] :
        qs \in sessionData, qr \in resultData}

\* ------------------------------------------------------------------ the handler
ErrorResponse(status, code) == [status |-> status, success |-> FALSE, code |-> code]

\* handleSyncData with the loops run before the body is validated.
handleSyncDataValidatesLate(sessions, results, userId, request, authConfig, now, f) ==
  LET rec == Reconcile(sessions, results, userId, request, f)
  IN IF ~request.valid
       THEN {[sessions |-> rec.sessions, results |-> rec.results,
              response |-> ErrorResponse(400, "INVALID_REQUEST")]}
     ELSE IF ~authConfig.auto_sync_enabled
       THEN {[sessions |-> sessions, results |-> results,
              response |-> ErrorResponse(400, "SYNC_DISABLED")]}
     ELSE {[sessions |-> rec.sessions,
            results |-> rec.results,
            response |-> [status |-> 200,
                          success |-> TRUE,
                          sync_timestamp |-> now,
                          sync_results |-> rec.syncResults,
                          server_data |-> serverData,
                          conflicts_resolved |-> (Len(rec.syncResults.conflicts) = 0)]] :
             serverData \in getLatestServerData(rec.sessions, rec.results, userId,
                                                request.last_sync_at, now, f.delta)}

\* handleSyncData: validation, the sync switch of the remote configuration,
\* the two loops, the delta and the 200 response.  The set of its possible
\* outcomes (one per order the delta queries may return equal timestamps in).
handleSyncData(sessions, results, userId, request, authConfig, now, f) ==
  IF ~request.valid
    THEN {[sessions |-> sessions, results |-> results,
           response |-> ErrorResponse(400, "INVALID_REQUEST")]}
  ELSE IF ~authConfig.auto_sync_enabled
    THEN {[sessions |-> sessions, results |-> results,
           response |-> ErrorResponse(400, "SYNC_DISABLED")]}
  ELSE
    LET rec == Reconcile(sessions, results, userId, request, f)
    IN {[sessions |-> rec.sessions,
         results |-> rec.results,
         response |-> [status |-> 200,
                       success |-> TRUE,
                       sync_timestamp |-> now,
                       sync_results |-> rec.syncResults,
                       server_data |-> serverData,
                       conflicts_resolved |-> (Len(rec.syncResults.conflicts) = 0)]] :
          serverData \in getLatestServerData(rec.sessions, rec.results, userId,
                                             request.last_sync_at, now, f.delta)}

\* serve, method POST: the principal is resolved first.
servePost(sessions, results, request, authConfig, now, f) ==
  IF request.user = NULL
    THEN {[sessions |-> sessions, results |-> results,
           response |-> ErrorResponse(401, "AUTHENTICATION_REQUIRED")]}
    ELSE handleSyncData(sessions, results, request.user, request, authConfig,
                        now, f)

\* saveQuizResults: upsert(results, {onConflict: 'result_id',
\* ignoreDuplicates: false}): each row replaces the row with its result_id.
RECURSIVE saveQuizResults(_, _, _)
saveQuizResults(results, rows, i) ==
  IF i > Len(rows) THEN results
  ELSE saveQuizResults([results EXCEPT ![rows[i].result_id] = <<rows[i]>>],
                       rows, i + 1)

\* ------------------------------------------------------------------ GET and PUT
\* handleGetProgress reads limit off the query string, '50' when absent.
GetSessionLimit == 50

\* getQuizSessionsByUser: from('quiz_sessions').select('*, quiz_results (*)')
\* .eq('user_id', userId).order('started_at', {ascending: false}).limit(limit):
\* the sessions of the owner, newest start first, each with the embedded
\* rows of quiz_results that reference it by session_id.  The filter on
\* user_id applies to quiz_sessions; the embedding carries none.
getQuizSessionsByUser(sessions, results, userId, limit) ==
  LET own == {row \in Rows(sessions) : row.user_id = userId}
      embed(row) ==
        [session |-> row,
         quiz_results |-> {r \in Rows(results) : r.session_id = row.session_id}]
  IN {[i \in 1..Len(q) |-> embed(q[i])] :
        q \in OrderByDescLimit(own, "started_at", limit)}

\* handleGetProgress, no category and no include_stats in the query string.
handleGetProgress(sessions, results, userId, now) ==
  {[status |-> 200, success |-> TRUE, sessions |-> data, last_updated |-> now] :
     data \in getQuizSessionsByUser(sessions, results, userId, GetSessionLimit)}

\* updateQuizSession: the ownership SELECT, the allow-list over the keys of
\* updates, and UPDATE quiz_sessions SET <the allowed keys>, updated_at = now
\* WHERE session_id = $1 AND user_id = $2.  (A metadata object is written
\* here by its JSON text, which is what JSON.stringify stores.)
allowedFields == {"status", "current_question", "score", "time_spent", "metadata"}

\* updateQuizSession with its SELECT and UPDATE by session_id alone
\* (WHERE session_id = $1): the session of any owner is found and updated.
updateQuizSessionOfAnyOwner(sessions, userId, sessionId, updates, now) ==
  LET updateFields == DOMAIN updates \cap allowedFields
      row == sessions[sessionId][1]
  IN IF sessions[sessionId] = <<>>
       THEN [success |-> FALSE, code |-> "SESSION_NOT_FOUND", sessions |-> sessions]
     ELSE IF updateFields = {}
       THEN [success |-> FALSE, code |-> "NO_VALID_UPDATES", sessions |-> sessions]
     ELSE [success |-> TRUE, code |-> NULL,
           sessions |-> [sessions EXCEPT ![sessionId] =
             <<[field \in DOMAIN row |->
                  IF field \in updateFields THEN updates[field]
                  ELSE IF field = "updated_at" THEN now
                  ELSE row[field]]>>]]

updateQuizSession(sessions, userId, sessionId, updates, now) ==
  LET updateFields == DOMAIN updates \cap allowedFields
      row == sessions[sessionId][1]
  IN IF SelectSession(sessions, sessionId, userId) = <<>>
       THEN [success |-> FALSE, code |-> "SESSION_NOT_FOUND", sessions |-> sessions]
     ELSE IF updateFields = {}
       THEN [success |-> FALSE, code |-> "NO_VALID_UPDATES", sessions |-> sessions]
     ELSE [success |-> TRUE, code |-> NULL,
           sessions |-> [sessions EXCEPT ![sessionId] =
             <<[field \in DOMAIN row |->
                  IF field \in updateFields THEN updates[field]
                  ELSE IF field = "updated_at" THEN now
                  ELSE row[field]]>>]]

\* handleUpdateProgress: a body without session_id or without updates is
\* answered 400; so is an update that updateQuizSession refuses.
handleUpdateProgress(sessions, userId, body, now) ==
  IF ~({"session_id", "updates"} \subseteq DOMAIN body)
    THEN [sessions |-> sessions, response |-> ErrorResponse(400, "INVALID_REQUEST")]
  ELSE LET updateResult ==
             updateQuizSession(sessions, userId, body.session_id, body.updates, now)
       IN IF ~updateResult.success
            THEN [sessions |-> sessions,
                  response |-> ErrorResponse(400, updateResult.code)]
            ELSE [sessions |-> updateResult.sessions,
                  response |-> [status |-> 200, success |-> TRUE,
                                session_id |-> body.session_id,
                                updated_at |-> now]]

\* ------------------------------------------------------------------ manual-sync
\* The completed_at column: NULL is written <<>>, a timestamp t <<t>>.
\* session.completed_at of an upload that carries none is undefined, and is
\* stored as NULL.
CompletedAtOf(session) ==
  IF "completed_at" \in DOMAIN session THEN <<session.completed_at>> ELSE <<>>

\* batchUploadSessions: for each pending session, INSERT INTO quiz_sessions
\* (...) ON CONFLICT (session_id) DO UPDATE SET status, score, completed_at,
\* updated_at = EXCLUDED.*: the row with this session_id, whoever owns it,
\* takes the four uploaded values.
RECURSIVE batchUploadSessions(_, _, _, _)
batchUploadSessions(sessions, userId, list, i) ==
  IF i > Len(list) THEN sessions
  ELSE LET session == list[i]
           sid == session.session_id
           upserted ==
             IF sessions[sid] = <<>>
               THEN [InsertSession(sessions, userId, session) EXCEPT
                       ![sid][1].completed_at = CompletedAtOf(session)]
               ELSE [sessions EXCEPT
                       ![sid][1].status = session.status,
                       ![sid][1].score = session.score,
                       ![sid][1].completed_at = CompletedAtOf(session),
                       ![sid][1].updated_at = session.updated_at]
       IN batchUploadSessions(upserted, userId, list, i + 1)

\* batchUploadResults: for each pending result, INSERT INTO quiz_results (...)
\* ON CONFLICT (result_id) DO NOTHING.
RECURSIVE batchUploadResults(_, _, _, _)
batchUploadResults(results, userId, list, i) ==
  IF i > Len(list) THEN results
  ELSE batchUploadResults(InsertResult(results, userId, list[i]), userId, list, i + 1)

\* JSON.stringify of a preferences object: here an object holds a theme or
\* nothing.
JSONStringifyPreferences(object) ==
  IF DOMAIN object = {} THEN "{}"
  ELSE "{\"theme\":\"" \o object.theme \o "\"}"

\* The preferences column of a user who never set any.
NoPreferences == JSONStringifyPreferences(<<>>)

\* syncUserPreferences: UPDATE users SET preferences = $2, updated_at = NOW()
\* WHERE id = $1.
syncUserPreferences(preferences, userId, object) ==
  [u \in DOMAIN preferences |->
     IF u = userId THEN JSONStringifyPreferences(object) ELSE preferences[u]]

\* manual-sync, serve: the principal is optional; the uploads run for a
\* resolved principal only, and every executed query counts as uploaded.
manualSync(sessions, results, preferences, userId, body, now) ==
  LET upload == userId # NULL
      user_preferences == IF "user_preferences" \in DOMAIN body
                            THEN body.user_preferences ELSE <<>>
      sync == DOMAIN user_preferences # {} /\ upload
  IN [preferences |-> IF sync
                        THEN syncUserPreferences(preferences, userId, user_preferences)
                        ELSE preferences,
      sessions |-> IF upload
                     THEN batchUploadSessions(sessions, userId, body.pending_sessions, 1)
                     ELSE sessions,
      results |-> IF upload
                    THEN batchUploadResults(results, userId, body.pending_results, 1)
                    ELSE results,
      response |-> [status |-> 200, success |-> TRUE,
                    uploaded_results |-> IF upload THEN Len(body.pending_results) ELSE 0,
                    uploaded_sessions |-> IF upload THEN Len(body.pending_sessions) ELSE 0,
                    preferences_synced |-> sync,
                    sync_timestamp |-> now]]

\* ------------------------------------------------------------------ inputs
\* A push batch holds at most MaxBatch items, sessions and results together.
MaxBatch == 2

SeqsUpTo(S, n) == UNION {[1..k -> S] : k \in 0..n}

PushBatches ==
  {b \in [quiz_sessions : SeqsUpTo(SessionInputs, MaxBatch),
          quiz_results : SeqsUpTo(ResultInputs, MaxBatch)] :
     Len(b.quiz_sessions) + Len(b.quiz_results) <= MaxBatch}

Request(user, valid, batch, lastSyncAt) ==
  [route |-> "POST /sync-progress", user |-> user, valid |-> valid,
   quiz_sessions |-> batch.quiz_sessions,
   quiz_results |-> batch.quiz_results,
   last_sync_at |-> lastSyncAt]

\* The requests of the device under study, owner A: every push batch.
DeviceRequests == {Request("A", TRUE, b, 0) : b \in PushBatches}

\* The request of another owner's device, which holds one session.
OtherRequests ==
  {Request("B", TRUE, [quiz_sessions |-> <<MkSession("s1", 1)>>,
                       quiz_results |-> <<>>], 0)}

\* Requests that end before the loops: no principal, a body the schema rejects.
RejectedRequests ==
  {Request(u, v, [quiz_sessions |-> <<MkSession("s1", 1)>>,
                  quiz_results |-> <<MkResult("r1", 1)>>], 0) :
     u \in {NULL, "A"}, v \in BOOLEAN} \ DeviceRequests

SyncEnabled == [auto_sync_enabled |-> TRUE]
SyncDisabled == [auto_sync_enabled |-> FALSE]

\* What arrives: a request and the configuration snapshot it is handled under.
Arrivals ==
  ((DeviceRequests \cup OtherRequests \cup RejectedRequests) \X {SyncEnabled})
  \cup {<<Request("A", TRUE, [quiz_sessions |-> <<MkSession("s1", 1)>>,
                              quiz_results |-> <<>>], 0), SyncDisabled>>}

NoFailures(request) ==
  [sessions |-> [i \in 1..Len(request.quiz_sessions) |-> NoFailure],
   results |-> [i \in 1..Len(request.quiz_results) |-> NoFailure],
   delta |-> [sessions |-> FALSE, results |-> FALSE]]

NoRequestOf(user) ==
  Request(user, FALSE, [quiz_sessions |-> <<>>, quiz_results |-> <<>>], 0)
NoRequest == NoRequestOf(NULL)
NoResponse == [status |-> 0]

\* ------------------------------------------------------------------ sync triggers
\* SYNC_TRIGGERS, the triggers studied here; a window the table leaves out
\* is 0, which the code's `trigger.throttle &&` treats as it treats none.
SYNC_TRIGGERS ==
  [home_view |-> [throttle |-> 300000, cache_duration |-> 0],
   leaderboard_view |-> [throttle |-> 0, cache_duration |-> 60000],
   network_restored |-> [throttle |-> 0, cache_duration |-> 0],
   app_foreground |-> [throttle |-> 60000, cache_duration |-> 0]]

TriggerNames == DOMAIN SYNC_TRIGGERS

\* SYNC_ACTIONS[triggerName] || []: home_view has no entry.
SYNC_ACTIONS ==
  [home_view |-> <<>>,
   leaderboard_view |-> <<[name |-> "refreshLeaderboard", required_auth |-> FALSE]>>,
   network_restored |-> <<[name |-> "syncOfflineData", required_auth |-> TRUE],
                          [name |-> "checkPendingUpdates", required_auth |-> FALSE]>>,
   app_foreground |-> <<[name |-> "quickHealthCheck", required_auth |-> FALSE]>>]

\* new SyncTriggerManager(logger): two empty maps.  A trigger without an
\* entry in lastSyncTimes is written 0 (`!lastSync` reads both alike), one
\* without an entry in cache <<>>.
NewManager ==
  [lastSyncTimes |-> [g \in TriggerNames |-> 0],
   cache |-> [g \in TriggerNames |-> <<>>]]

isThrottled(manager, triggerName, throttleMs, now) ==
  LET lastSync == manager.lastSyncTimes[triggerName]
  IN IF lastSync = 0 THEN FALSE ELSE (now - lastSync) < throttleMs

\* getCachedResult: <<data>>, or <<>> when nothing is cached or it expired.
getCachedResult(manager, triggerName, now) ==
  LET cached == manager.cache[triggerName]
  IN IF cached = <<>> THEN <<>>
     ELSE IF now > cached[1].expires THEN <<>>
     ELSE <<cached[1].data>>

\* The loop over the trigger's actions: an action that requires a user is
\* skipped without one; executeAction succeeds; each success is cached when
\* the trigger has a cache_duration.
RECURSIVE RunActions(_, _, _, _, _, _, _)
RunActions(manager, triggerName, actions, i, userId, now, results) ==
  IF i > Len(actions) THEN [manager |-> manager, results |-> results]
  ELSE IF actions[i].required_auth /\ userId = NULL
    THEN RunActions(manager, triggerName, actions, i + 1, userId, now, results)
  ELSE LET data == [action |-> actions[i].name, timestamp |-> now]
           duration == SYNC_TRIGGERS[triggerName].cache_duration
           cached == IF duration # 0
                       THEN [manager EXCEPT !.cache[triggerName] =
                               <<[data |-> data, expires |-> now + duration]>>]
                       ELSE manager
       IN RunActions(cached, triggerName, actions, i + 1, userId, now,
                     Append(results, [action |-> actions[i].name,
                                      success |-> TRUE, data |-> data]))

\* executeSyncTrigger: the manager after the call and what the call returns.
executeSyncTrigger(manager, triggerName, userId, now) ==
  IF triggerName \notin TriggerNames
    THEN [manager |-> manager, success |-> FALSE, results |-> <<>>]
  ELSE LET trigger == SYNC_TRIGGERS[triggerName]
           cached == getCachedResult(manager, triggerName, now)
           expired == [manager EXCEPT !.cache[triggerName] =
                         IF cached = <<>> THEN <<>> ELSE @]
           ran == RunActions(expired, triggerName, SYNC_ACTIONS[triggerName], 1,
                             userId, now, <<>>)
       IN IF trigger.throttle # 0
             /\ isThrottled(manager, triggerName, trigger.throttle, now)
            THEN [manager |-> manager, success |-> TRUE, results |-> <<>>]
          ELSE IF trigger.cache_duration # 0 /\ cached # <<>>
            THEN [manager |-> manager, success |-> TRUE, results |-> cached]
          ELSE [manager |-> [ran.manager EXCEPT !.lastSyncTimes[triggerName] = now],
                success |-> \E k \in 1..Len(ran.results) : ran.results[k].success,
                results |-> ran.results]

\* Date.now() in milliseconds; the clock is looked at once a minute.
Minute == 60 * 1000

NoCall == [via |-> "none"]

\* Nothing has been triggered yet.
NoTriggers ==
  [now |-> Minute,
   manager |-> NewManager,
   recorded |-> [g \in TriggerNames |-> 0],
   call |-> NoCall]

\* ------------------------------------------------------------------ state
VARIABLES
  sessions,    \* table quiz_sessions
  results,     \* table quiz_results
  phase,       \* "idle", or "done": a request has just been answered
  req,         \* the request answered last
  authConfig,  \* the configuration snapshot loadAuthConfig returned for it
  fails,       \* the storage failures that met its queries
  resp,        \* its response
  replay,      \* it was a verbatim retry of the request answered before it
  procs,       \* the handlers that run concurrently, each at an await
  clock,       \* the server's clock, what new Date() returns
  preferences, \* table users, column preferences, by the id of the user
  triggers     \* the sync triggers: Date.now(), the manager that lives on,
               \* the call handled last, when each trigger was last recorded

vars ==
  <<sessions, results, phase, req, authConfig, fails, resp, replay, procs, clock,
    preferences, triggers>>

\* Two handler invocations can be in flight at once.
Procs == {"p1", "p2"}
IdleProc ==
  [pc |-> "idle", request |-> NoRequestOf("A"), existingSession |-> executeQuery(FALSE, <<>>),
   syncResults |-> EmptySyncResults, quiz_sessions |-> <<>>, quiz_results |-> <<>>,
   read |-> {}, delta_at |-> 0, server_timestamp |-> 0]


Init ==
  /\ sessions = [sid \in SessionIds |-> <<>>]
  /\ results = [rid \in ResultIds |-> <<>>]
  /\ phase = "idle"
  /\ req = NoRequest
  /\ authConfig = SyncEnabled
  /\ fails = NoFailures(NoRequest)
  /\ resp = NoResponse
  /\ replay = FALSE
  /\ procs = [p \in Procs |-> IdleProc]
  /\ clock = MaxTime
  /\ preferences = [u \in Owners |-> NoPreferences]
  /\ triggers = NoTriggers

\* The handler runs request r under configuration cfg, storage failures f
\* meeting its queries, to its response.
Serve(r, cfg, f) ==
  /\ \E out \in servePost(sessions, results, r, cfg, clock, f) :
       /\ sessions' = out.sessions
       /\ results' = out.results
       /\ resp' = out.response
  /\ req' = r
  /\ authConfig' = cfg
  /\ fails' = f
  /\ phase' = "done"
  /\ UNCHANGED <<procs, clock, preferences, triggers>>

\* POST /sync-progress: a request arrives and is handled, every storage
\* query succeeding.
Post ==
  /\ phase = "idle"
  /\ \E a \in Arrivals : Serve(a[1], a[2], NoFailures(a[1]))
  /\ replay' = FALSE

\* The client sends the request it was just answered once more, verbatim
\* (a retry after a timeout), and it is handled.
Retry ==
  /\ phase = "done"
  /\ Serve(req, authConfig, NoFailures(req))
  /\ replay' = TRUE

\* The response has left; the handler keeps nothing of the request.
Respond ==
  /\ phase = "done"
  /\ phase' = "idle"
  /\ req' = NoRequest
  /\ authConfig' = SyncEnabled
  /\ fails' = NoFailures(NoRequest)
  /\ resp' = NoResponse
  /\ replay' = FALSE
  /\ UNCHANGED <<sessions, results, procs, clock, preferences, triggers>>

\* saveQuizResults is called with one row of owner A.
SaveQuizResults ==
  /\ phase = "idle"
  /\ \E r \in ResultInputs :
       results' = saveQuizResults(results, <<ResultRow("A", r)>>, 1)
  /\ UNCHANGED <<sessions, phase, req, authConfig, fails, resp, replay, procs, clock, preferences, triggers>>

Next == Post \/ Retry \/ Respond \/ SaveQuizResults

Spec == Init /\ [][Next]_vars

\* ------------------------------------------------------------------ failing storage
ItemFailures == [read : BOOLEAN, write : BOOLEAN]

\* Failures in the queries of session item k only / of result item k only.
SessionItemFails(request, k, itemFailure, delta) ==
  [NoFailures(request) EXCEPT !.sessions[k] = itemFailure, !.delta = delta]
ResultItemFails(request, k, itemFailure, delta) ==
  [NoFailures(request) EXCEPT !.results[k] = itemFailure, !.delta = delta]

\* The store is down for the whole request: every query fails.
AllFail(request) ==
  [sessions |-> [i \in 1..Len(request.quiz_sessions) |-> [read |-> TRUE, write |-> TRUE]],
   results |-> [i \in 1..Len(request.quiz_results) |-> [read |-> TRUE, write |-> TRUE]],
   delta |-> [sessions |-> TRUE, results |-> TRUE]]

\* The failures a request can meet: in the queries of one of its items, with
\* the delta queries both failing or both succeeding; or in all its queries.
FailurePatterns(request) ==
  LET deltas == {[sessions |-> b, results |-> b] : b \in BOOLEAN}
  IN {SessionItemFails(request, k, itf, d) :
        k \in 1..Len(request.quiz_sessions), itf \in ItemFailures, d \in deltas}
     \cup {ResultItemFails(request, k, itf, d) :
        k \in 1..Len(request.quiz_results), itf \in ItemFailures, d \in deltas}
     \cup {AllFail(request)}

\* The requests handled under failures: the push batches of the device whose
\* sessions are versions 1 and 2.
FailRequests ==
  {r \in DeviceRequests :
     \A i \in 1..Len(r.quiz_sessions) : r.quiz_sessions[i].updated_at \in ResultTimes}

\* POST /sync-progress: a request of the device arrives and is handled, some
\* of its storage queries failing.
PostUnderFailures ==
  /\ phase = "idle"
  /\ \E r \in FailRequests : \E f \in FailurePatterns(r) :
       Serve(r, SyncEnabled, f)
  /\ replay' = FALSE

NextFail == PostUnderFailures \/ Respond

FailSpec == Init /\ [][NextFail]_vars

\* ------------------------------------------------------------------ concurrent handlers
\* Two devices of owner A post at the same time, each a batch of one
\* session.  A handler is suspended at every await: after its SELECT, after
\* its UPDATE or INSERT, and in Promise.all until both delta queries have
\* returned.
ConcurrentRequests ==
  {Request("A", TRUE, [quiz_sessions |-> <<s>>, quiz_results |-> <<>>], 0) :
     s \in SessionInputs}

serverOnly == <<phase, req, authConfig, fails, resp, replay, preferences, triggers>>

\* A request arrives at handler p; validation and configuration pass.
CArrive(p) ==
  /\ procs[p].pc = "idle"
  /\ \E r \in ConcurrentRequests :
       procs' = [procs EXCEPT ![p] = [IdleProc EXCEPT !.pc = "select", !.request = r]]
  /\ UNCHANGED <<sessions, results, serverOnly, clock>>

\* syncQuizSession, the SELECT returns.
CSelect(p) ==
  /\ procs[p].pc = "select"
  /\ LET s == procs[p].request.quiz_sessions[1]
     IN procs' = [procs EXCEPT
          ![p].existingSession =
             executeQuery(FALSE, SelectSession(sessions, s.session_id,
                                               procs[p].request.user)),
          ![p].pc = "write"]
  /\ UNCHANGED <<sessions, results, serverOnly, clock>>

\* syncQuizSession, from the SELECT's return to the end of the loop pass: the
\* conflict check on the rows read, the UPDATE or INSERT on the table as it
\* is now, the outcome filed.
CWrite(p) ==
  /\ procs[p].pc = "write"
  /\ LET s == procs[p].request.quiz_sessions[1]
         result == syncQuizSessionWrite(sessions, procs[p].request.user, s,
                                        procs[p].existingSession, FALSE)
     IN /\ sessions' = result.sessions
        /\ procs' = [procs EXCEPT
             ![p].syncResults = FileSession(@, s, result),
             ![p].pc = "delta"]
  /\ UNCHANGED <<results, serverOnly, clock>>

\* getLatestServerData, one of the two queries of Promise.all returns.
\* delta_at keeps the instant at which the first of them read the store.
CDeltaSessions(p) ==
  /\ procs[p].pc = "delta"
  /\ "sessions" \notin procs[p].read
  /\ \E d \in getLatestServerData(sessions, results, procs[p].request.user,
                                  procs[p].request.last_sync_at, clock,
                                  [sessions |-> FALSE, results |-> FALSE]) :
       procs' = [procs EXCEPT ![p].quiz_sessions = d.quiz_sessions,
                              ![p].read = @ \cup {"sessions"},
                              ![p].delta_at = IF procs[p].read = {} THEN clock ELSE @]
  /\ UNCHANGED <<sessions, results, serverOnly, clock>>

CDeltaResults(p) ==
  /\ procs[p].pc = "delta"
  /\ "results" \notin procs[p].read
  /\ \E d \in getLatestServerData(sessions, results, procs[p].request.user,
                                  procs[p].request.last_sync_at, clock,
                                  [sessions |-> FALSE, results |-> FALSE]) :
       procs' = [procs EXCEPT ![p].quiz_results = d.quiz_results,
                              ![p].read = @ \cup {"results"},
                              ![p].delta_at = IF procs[p].read = {} THEN clock ELSE @]
  /\ UNCHANGED <<sessions, results, serverOnly, clock>>

\* Both delta queries have returned: server_timestamp is read off the clock
\* and the 200 response is sent.
CAnswer(p) ==
  /\ procs[p].pc = "delta"
  /\ procs[p].read = {"sessions", "results"}
  /\ procs' = [procs EXCEPT ![p].pc = "answered",
                            ![p].server_timestamp = clock]
  /\ UNCHANGED <<sessions, results, serverOnly, clock>>

\* The handler invocation is over.
CFinish(p) ==
  /\ procs[p].pc = "answered"
  /\ procs' = [procs EXCEPT ![p] = IdleProc]
  /\ UNCHANGED <<sessions, results, serverOnly, clock>>

NextConc ==
  \E p \in Procs :
    \/ CArrive(p) \/ CSelect(p) \/ CWrite(p)
    \/ CDeltaSessions(p) \/ CDeltaResults(p) \/ CAnswer(p) \/ CFinish(p)

ConcSpec == Init /\ [][NextConc]_vars

\* ------------------------------------------------------------------ all endpoints
\* The server's clock moves on at most MaxTicks times.
MaxTicks == 2

Tick ==
  /\ clock < MaxTime + MaxTicks
  /\ clock' = clock + 1
  /\ UNCHANGED <<sessions, results, phase, req, authConfig, fails, resp, replay, procs,
               preferences, triggers>>

\* The item with a client-supplied field added (user_id, completed_at).
WithField(item, field, value) ==
  [name \in DOMAIN item \cup {field} |-> IF name = field THEN value ELSE item[name]]

\* The POST bodies of the two owners: versions of session s1 from A; from B
\* a session s2, the session_id s1 under a user_id that names A, and a
\* result that references session s1.
ApiPosts ==
  {Request("A", TRUE, [quiz_sessions |-> <<MkSession("s1", t)>>,
                       quiz_results |-> <<>>], 0) : t \in Times}
  \cup {Request("B", TRUE, [quiz_sessions |-> <<s>>, quiz_results |-> <<>>], 0) :
          s \in {MkSession("s2", 1), WithField(MkSession("s1", 1), "user_id", "A")}}
  \cup {Request("B", TRUE, [quiz_sessions |-> <<>>,
                            quiz_results |-> <<MkResult("r1", 1)>>], 0)}

\* The PUT bodies: {session_id, updates}, updates with allowed keys, with a
\* key outside the allow-list, with no allowed key; a body without updates.
PutUpdates ==
  {[score |-> 99],
   [status |-> "completed", user_id |-> "B"],
   [user_id |-> "B"]}

PutRequests ==
  {[route |-> "PUT /sync-progress", user |-> u, session_id |-> "s1", updates |-> upd] :
     u \in Owners, upd \in PutUpdates}
  \cup {[route |-> "PUT /sync-progress", user |-> "A", session_id |-> "s1"],
        [route |-> "PUT /sync-progress", user |-> NULL, session_id |-> "s1",
         updates |-> [score |-> 99]]}

GetRequests ==
  {[route |-> "GET /sync-progress", user |-> u] : u \in Owners \cup {NULL}}

\* The manual-sync bodies: a version of session s1, with or without
\* completed_at, and possibly a result; from an owner or from a guest.
ManualSyncRequests ==
  {[route |-> "POST /manual-sync", user |-> u,
    pending_sessions |-> <<s>>, pending_results |-> rs] :
     u \in Owners \cup {NULL},
     s \in {MkSession("s1", 1),
            WithField(MkSession("s1", 2), "completed_at", 2)},
     rs \in {<<>>, <<MkResult("r1", 2)>>}}

\* A handler has run request r to the outcome out.
Answer(r, out) ==
  /\ phase = "idle"
  /\ sessions' = out.sessions
  /\ results' = out.results
  /\ resp' = out.response
  /\ req' = r
  /\ phase' = "done"
  /\ preferences' = IF "preferences" \in DOMAIN out THEN out.preferences
                    ELSE preferences
  /\ UNCHANGED <<authConfig, fails, replay, procs, clock, triggers>>

Unauthenticated == ErrorResponse(401, "AUTHENTICATION_REQUIRED")

\* POST /sync-progress.
ApiPost ==
  \E r \in ApiPosts :
    \E out \in servePost(sessions, results, r, SyncEnabled, clock, NoFailures(r)) :
      Answer(r, out)

\* GET /sync-progress: serve resolves the principal, then handleGetProgress.
ApiGet ==
  \E r \in GetRequests :
    IF r.user = NULL
      THEN Answer(r, [sessions |-> sessions, results |-> results,
                      response |-> Unauthenticated])
      ELSE \E response \in handleGetProgress(sessions, results, r.user, clock) :
             Answer(r, [sessions |-> sessions, results |-> results,
                        response |-> response])

\* PUT /sync-progress: serve resolves the principal, then handleUpdateProgress.
ApiPut ==
  \E r \in PutRequests :
    IF r.user = NULL
      THEN Answer(r, [sessions |-> sessions, results |-> results,
                      response |-> Unauthenticated])
      ELSE LET out == handleUpdateProgress(sessions, r.user, r, clock)
           IN Answer(r, [sessions |-> out.sessions, results |-> results,
                         response |-> out.response])

\* POST /manual-sync.
ApiManualSync ==
  \E r \in ManualSyncRequests :
    \E out \in {manualSync(sessions, results, preferences, r.user, r, clock)} :
      Answer(r, out)

NextApi == ApiPost \/ ApiGet \/ ApiPut \/ ApiManualSync \/ Tick \/ Respond

ApiSpec == Init /\ [][NextApi]_vars

\* ------------------------------------------------------------------ a long history
\* A device that has played for a long time: its owner's rows outnumber the
\* limits of the delta queries by up to Backlog.
Backlog == 3

SessionId(i) == "s" \o ToString(i)
ResultId(i) == "r" \o ToString(i)

LastSession == DeltaSessionLimit + Backlog + 1
LastResult == DeltaResultLimit + Backlog + 1
HistorySessionIds == {SessionId(i) : i \in 1..LastSession}
HistoryResultIds == {ResultId(i) : i \in 1..LastResult}

\* The device's timestamp on its i-th record: the first two records were
\* written in the same instant, the later ones one instant apart.
Stamp(i) == IF i = 1 THEN 1 ELSE i - 1

\* The tables after owner A's device has uploaded its first n sessions and
\* m results, and owner B's device one recent session and one recent result:
\* each row is the row the INSERT of syncQuizSession or syncQuizResult writes.
HistorySessions(n) ==
  [sid \in HistorySessionIds |->
     LET i == CHOOSE i \in 1..LastSession : SessionId(i) = sid
         alone == [other \in {sid} |-> <<>>]
     IN IF i <= n
          THEN InsertSession(alone, "A", MkSession(sid, Stamp(i)))[sid]
        ELSE IF i = LastSession
          THEN InsertSession(alone, "B", MkSession(sid, DeltaSessionLimit))[sid]
        ELSE <<>>]

HistoryResults(m) ==
  [rid \in HistoryResultIds |->
     LET i == CHOOSE i \in 1..LastResult : ResultId(i) = rid
     IN IF i <= m THEN <<ResultRow("A", MkResult(rid, Stamp(i)))>>
        ELSE IF i = LastResult THEN <<ResultRow("B", MkResult(rid, DeltaResultLimit))>>
        ELSE <<>>]

\* Owner A holds k records beyond each limit.
History(k) ==
  [sessions |-> HistorySessions(DeltaSessionLimit + k),
   results |-> HistoryResults(DeltaResultLimit + k)]

\* The server's clock when the pulls begin: behind the newest device
\* timestamps (devices whose clocks run ahead), or ahead of all of them.
HistoryClocks == {DeltaSessionLimit, DeltaResultLimit + Backlog}

DeltaInit ==
  /\ \E k \in 0..Backlog :
       /\ sessions = History(k).sessions
       /\ results = History(k).results
  /\ phase = "idle"
  /\ req = NoRequest
  /\ authConfig = SyncEnabled
  /\ fails = NoFailures(NoRequest)
  /\ resp = NoResponse
  /\ replay = FALSE
  /\ procs = [p \in Procs |-> IdleProc]
  /\ clock \in HistoryClocks
  /\ preferences = [u \in Owners |-> NoPreferences]
  /\ triggers = NoTriggers

\* The watermarks a device pulls with: never synced, the oldest instants,
\* an instant in the middle of the history.
Watermarks == (0..(Backlog + 1)) \cup {DeltaSessionLimit}

\* A pull: a POST /sync-progress that uploads nothing.
PullRequest(user, lastSyncAt) ==
  Request(user, TRUE, [quiz_sessions |-> <<>>, quiz_results |-> <<>>], lastSyncAt)

Pull ==
  /\ phase = "idle"
  /\ \E u \in Owners, w \in Watermarks :
       Serve(PullRequest(u, w), SyncEnabled, NoFailures(PullRequest(u, w)))
  /\ replay' = FALSE

\* The device adopts the server_timestamp it was answered as its watermark
\* and pulls once more.
PullAgain ==
  /\ phase = "done"
  /\ req.route = "POST /sync-progress"
  /\ resp.status = 200
  /\ \E r \in {PullRequest(req.user, resp.server_data.server_timestamp)} :
       Serve(r, SyncEnabled, NoFailures(r))
  /\ replay' = FALSE

\* The device pulls once more with the watermark it pulled with.
PullSame ==
  /\ req.route = "POST /sync-progress"
  /\ Retry

NextDelta == Pull \/ PullSame \/ PullAgain \/ ApiPut \/ Respond

DeltaSpec == DeltaInit /\ [][NextDelta]_vars

\* A device that keeps pulling.  Its request travels before the handler
\* runs it: in phase "pending" req is the request under way.
Sent(r) ==
  /\ req' = r
  /\ phase' = "pending"
  /\ UNCHANGED <<sessions, results, authConfig, fails, resp, replay, procs, clock, preferences, triggers>>

\* The device's first pull.
CallFirst ==
  /\ phase = "idle"
  /\ \E u \in Owners, w \in Watermarks : Sent(PullRequest(u, w))

\* The device calls again with the watermark it has.
CallSame ==
  /\ phase = "done"
  /\ Sent(req)

\* The device calls again with the server_timestamp it was answered.
CallAgain ==
  /\ phase = "done"
  /\ resp.status = 200
  /\ Sent(PullRequest(req.user, resp.server_data.server_timestamp))

\* The handler runs the request under way to its response.
Handle ==
  /\ phase = "pending"
  /\ Serve(req, SyncEnabled, NoFailures(req))
  /\ replay' = FALSE

\* A step of Handle, by what it does to phase (Handle is enabled in every
\* state of phase "pending").
Handled == phase = "pending" /\ phase' = "done"

NextCatchUp == CallFirst \/ CallSame \/ CallAgain \/ Handle

\* The device never stops calling and the server answers every call.
CatchUpSpec ==
  /\ DeltaInit
  /\ [][NextCatchUp]_vars
  /\ WF_phase(CallFirst \/ CallSame \/ CallAgain)
  /\ WF_phase(Handled)

\* ------------------------------------------------------------------ a write during a sync
\* While a POST /sync-progress handler is suspended at an await, a PUT
\* /sync-progress of the same owner runs from start to end.
RacePuts ==
  {[route |-> "PUT /sync-progress", user |-> "A", session_id |-> sid,
    updates |-> [score |-> 99]] : sid \in SessionIds}

CPut ==
  /\ \E r \in RacePuts :
       sessions' = handleUpdateProgress(sessions, r.user, r, clock).sessions
  /\ UNCHANGED <<results, serverOnly, procs, clock>>

\* One handler invocation at a time runs the POST.
Racer == "p1"

NextRace ==
  \/ CArrive(Racer) \/ CSelect(Racer) \/ CWrite(Racer)
  \/ CDeltaSessions(Racer) \/ CDeltaResults(Racer) \/ CAnswer(Racer) \/ CFinish(Racer)
  \/ CPut \/ Tick

RaceSpec == Init /\ [][NextRace]_vars

\* ------------------------------------------------------------------ a large batch
\* The item schemas of the request body: the required keys and the ranges
\* of the numbers (identifiers and instants are well-formed by construction).
QuizSessionSchema(session) ==
  /\ {"session_id", "category", "total_questions", "started_at", "updated_at"}
       \subseteq DOMAIN session
  /\ session.status \in {"started", "in_progress", "completed", "abandoned"}
  /\ session.current_question >= 0
  /\ session.total_questions >= 1
  /\ session.score \in 0..100
  /\ session.time_spent >= 0

QuizResultSchema(result) ==
  /\ {"result_id", "session_id", "question_id", "selected_answer", "is_correct",
      "time_taken", "created_at"} \subseteq DOMAIN result
  /\ result.selected_answer >= 0
  /\ result.is_correct \in BOOLEAN
  /\ result.time_taken >= 0

\* SyncRequestSchema.safeParse(body).success: quiz_sessions and quiz_results
\* are z.array(...) of the item schemas, with no .max() on either.
SyncRequestSchema(body) ==
  /\ \A i \in 1..Len(body.quiz_sessions) : QuizSessionSchema(body.quiz_sessions[i])
  /\ \A i \in 1..Len(body.quiz_results) : QuizResultSchema(body.quiz_results[i])

\* The bounds the earlier variant of SyncRequestSchema puts on its arrays
\* `sessions` and `results`.
MaxSessionsPerRequest == 100
MaxResultsPerRequest == 1000

\* A device uploads, in one request, one version more of session s1 than
\* MaxSessionsPerRequest, or one result more than MaxResultsPerRequest.
LargeBatches ==
  {[quiz_sessions |-> [i \in 1..(MaxSessionsPerRequest + 1) |-> MkSession("s1", i)],
    quiz_results |-> <<>>],
   [quiz_sessions |-> <<>>,
    quiz_results |-> [i \in 1..(MaxResultsPerRequest + 1) |->
                        MkResult(IF i % 2 = 1 THEN "r1" ELSE "r2", 1)]]}

LargeRequests == {Request("A", SyncRequestSchema(b), b, 0) : b \in LargeBatches}

PostLarge ==
  /\ phase = "idle"
  /\ \E r \in LargeRequests : Serve(r, SyncEnabled, NoFailures(r))
  /\ replay' = FALSE

NextLimit == Next \/ PostLarge

LimitSpec == Init /\ [][NextLimit]_vars

\* ------------------------------------------------------------------ two devices
\* Two devices of owner A.  The first keeps pulling: req and resp are its
\* request under way and the response it was answered last.  The second
\* uploads sessions it played, stamped by its own clock.
UploadRequests ==
  {Request("A", TRUE, [quiz_sessions |-> <<MkSession(sid, t)>>,
                       quiz_results |-> <<>>], 0) :
     sid \in SessionIds, t \in Times}

\* The first device's first pull: it has no watermark yet.
FirstCall ==
  /\ phase = "idle"
  /\ Sent(PullRequest("A", 0))

\* POST /sync-progress of the second device, handled from start to end
\* between two calls of the first; its response goes to the second device.
OtherDeviceSyncs ==
  /\ \E r \in UploadRequests :
       \E out \in servePost(sessions, results, r, SyncEnabled, clock, NoFailures(r)) :
         /\ sessions' = out.sessions
         /\ results' = out.results
  /\ UNCHANGED <<phase, req, authConfig, fails, resp, replay, procs, clock, preferences, triggers>>

NextDevices == FirstCall \/ CallAgain \/ Handle \/ OtherDeviceSyncs \/ Tick

\* The first device never stops calling and the server answers every call.
DevicesSpec ==
  /\ Init
  /\ [][NextDevices]_vars
  /\ WF_phase(FirstCall \/ CallAgain)
  /\ WF_phase(Handled)

\* ------------------------------------------------------------------ the remote configuration
\* What the remote configuration holds for auto_sync_enabled: a text, or
\* nothing ("").
RemoteConfigValues == {"true", "false", ""}

\* getRemoteConfigValue: parameter?.defaultValue?.value || null, and null
\* when the fetch failed.
getRemoteConfigValue(fetched, value) ==
  IF fetched /\ value # "" THEN value ELSE NULL

\* loadAuthConfig with auto_sync_enabled: autoSyncEnabled === 'true': sync
\* is on only when the remote configuration says so.
loadAuthConfigRequiresTrue(autoSyncEnabled) ==
  [auto_sync_enabled |-> autoSyncEnabled = "true"]

\* loadAuthConfig, the switch of the sync: autoSyncEnabled !== 'false'.
loadAuthConfig(autoSyncEnabled) ==
  [auto_sync_enabled |-> autoSyncEnabled # "false"]

\* The fetches of the remote configuration: it answers with one of its
\* values, or it cannot be reached.
RemoteConfigFetches ==
  {[fetched |-> TRUE, value |-> v] : v \in RemoteConfigValues}
  \cup {[fetched |-> FALSE, value |-> ""]}

\* POST /sync-progress: a request of the device arrives and is handled under
\* the configuration loadAuthConfig makes of what the fetch returned; fails
\* keeps the fetch.
PostUnderConfig ==
  /\ phase = "idle"
  /\ \E r \in DeviceRequests, fetch \in RemoteConfigFetches :
       Serve(r,
             loadAuthConfig(getRemoteConfigValue(fetch.fetched, fetch.value)),
             WithField(NoFailures(r), "remote_config", fetch))
  /\ replay' = FALSE

NextConfig == PostUnderConfig \/ Respond

ConfigSpec == Init /\ [][NextConfig]_vars

\* ------------------------------------------------------------------ manual sync
\* The preferences objects a device sends.
PreferenceObjects == {[theme |-> "dark"], [theme |-> "light"]}

\* The manual-sync bodies of the two owners and of a guest: at most one
\* pending session, at most one pending result, with or without
\* user_preferences.
ManualSyncUploads ==
  LET bodies ==
        {[route |-> "POST /manual-sync", user |-> u,
          pending_sessions |-> ss, pending_results |-> rs] :
           u \in Owners \cup {NULL},
           ss \in {<<>>} \cup {<<s>> : s \in SessionInputs},
           rs \in {<<>>, <<MkResult("r1", 1)>>}}
  IN bodies \cup {WithField(b, "user_preferences", object) :
                    b \in bodies, object \in PreferenceObjects}

\* POST /manual-sync.
ManualSync ==
  \E r \in ManualSyncUploads :
    \E out \in {manualSync(sessions, results, preferences, r.user, r, clock)} :
      Answer(r, out)

NextManual == ManualSync \/ Respond

ManualSpec == Init /\ [][NextManual]_vars

\* ------------------------------------------------------------------ triggered syncs
\* The clock is followed for MaxMinutes minutes.
MaxMinutes == 3

\* Who triggers: a signed-in user or nobody.
TriggerUsers == {NULL, "A"}

\* The screens whose view is reported; "settings" has no trigger.
ScreenNames == {"home", "leaderboard", "settings"}

\* executeSyncTrigger(triggerName, userId) has run on manager at the
\* present instant; keep says whether that manager lives on.  recorded
\* follows every lastSyncTimes.set, of whatever manager.
Triggered(via, manager, triggerName, userId, keep) ==
  LET now == triggers.now
      out == executeSyncTrigger(manager, triggerName, userId, now)
  IN /\ triggers' =
          [now |-> now,
           manager |-> IF keep THEN out.manager ELSE triggers.manager,
           recorded |-> [g \in TriggerNames |->
                           IF out.manager.lastSyncTimes[g] # manager.lastSyncTimes[g]
                             THEN out.manager.lastSyncTimes[g]
                             ELSE triggers.recorded[g]],
           call |-> [via |-> via, trigger |-> triggerName, userId |-> userId,
                     at |-> now, success |-> out.success, results |-> out.results]]
     /\ UNCHANGED <<sessions, results, phase, req, authConfig, fails, resp, replay,
                    procs, clock, preferences>>

\* executeSyncTrigger on the manager that lives on.
ManagerCall ==
  \E g \in TriggerNames, u \in TriggerUsers :
    Triggered("manager", triggers.manager, g, u, TRUE)

\* triggerScreenView: a manager is made for the call when the screen has a
\* trigger, and nothing happens when it has none.
triggerScreenView ==
  \E screenName \in ScreenNames, u \in TriggerUsers :
    /\ (screenName \o "_view") \in TriggerNames
    /\ Triggered("triggerScreenView", NewManager, screenName \o "_view", u, FALSE)

\* triggerNetworkRestore: a manager is made for the call.
triggerNetworkRestore ==
  \E u \in TriggerUsers :
    Triggered("triggerNetworkRestore", NewManager, "network_restored", u, FALSE)

\* A minute passes.
TimePasses ==
  /\ triggers.now < MaxMinutes * Minute
  /\ triggers' = [triggers EXCEPT !.now = @ + Minute]
  /\ UNCHANGED <<sessions, results, phase, req, authConfig, fails, resp, replay,
                 procs, clock, preferences>>

NextTriggers == ManagerCall \/ triggerScreenView \/ triggerNetworkRestore \/ TimePasses

TriggerSpec == Init /\ [][NextTriggers]_vars

\* ------------------------------------------------------------------ claims
Range(q) == {q[i] : i \in 1..Len(q)}

\* Item i is the only one of the list with its key.
OnlySession(list, i) ==
  \A j \in 1..Len(list) : list[j].session_id = list[i].session_id => j = i

\* The mutable fields of the row of session s under owner userId are those
\* of s.
SessionStoredAs(table, userId, s) ==
  LET rows == SelectSession(table, s.session_id, userId)
  IN /\ rows # <<>>
     /\ rows[1].status = s.status
     /\ rows[1].current_question = s.current_question
     /\ rows[1].score = s.score
     /\ rows[1].time_spent = s.time_spent
     /\ rows[1].metadata = JSONStringifyMetadata(s.metadata)
     /\ rows[1].updated_at = s.updated_at

\* The conflict entries of a response that are about session s.
SessionConflicts(response, s) ==
  {c \in Range(response.sync_results.conflicts) :
     c.type = "session" /\ c.id = s.session_id /\ c.conflict.client_data = s}

\* This step answers a POST with 200.
Answered200 == phase' = "done" /\ resp'.status = 200

\* C1 as stated: a session that is not stored for the owner, or is stored
\* for the owner with an older updated_at, is accepted: stored with the
\* incoming values and reported in synced_sessions.
C1_AcceptForOwner ==
  [][Answered200 =>
       \A i \in 1..Len(req'.quiz_sessions) :
         LET s == req'.quiz_sessions[i]
             stored == SelectSession(sessions, s.session_id, req'.user)
         IN (/\ OnlySession(req'.quiz_sessions, i)
             /\ \/ stored = <<>>
                \/ stored[1].updated_at < s.updated_at)
            => /\ SessionStoredAs(sessions', req'.user, s)
               /\ s.session_id \in Range(resp'.sync_results.synced_sessions)]_vars

\* The part of C1 that holds: a session whose session_id is stored for no
\* owner at all, or is stored for the owner with an older updated_at, is
\* stored with the incoming values and reported in synced_sessions.
C1_AcceptNewer ==
  [][Answered200 =>
       \A i \in 1..Len(req'.quiz_sessions) :
         LET s == req'.quiz_sessions[i]
             stored == SelectSession(sessions, s.session_id, req'.user)
         IN (/\ OnlySession(req'.quiz_sessions, i)
             /\ \/ sessions[s.session_id] = <<>>
                \/ stored # <<>> /\ stored[1].updated_at < s.updated_at)
            => /\ SessionStoredAs(sessions', req'.user, s)
               /\ s.session_id \in Range(resp'.sync_results.synced_sessions)]_vars

\* A newer version of a stored session was accepted: the row has the incoming
\* mutable fields and the started_at of the version inserted before.
C1_Witness ==
  /\ phase = "done"
  /\ resp.status = 200
  /\ \E i \in 1..Len(req.quiz_sessions) :
       LET s == req.quiz_sessions[i]
       IN /\ s.session_id \in Range(resp.sync_results.synced_sessions)
          /\ SessionStoredAs(sessions, req.user, s)
          /\ sessions[s.session_id][1].started_at < s.started_at

\* C2: a session stored for the owner with a later updated_at than the
\* incoming one is left as it is, and the response carries a conflict entry
\* with the stored row as server_data and the incoming session as client_data.
C2_StaleDropped ==
  [][Answered200 =>
       \A i \in 1..Len(req'.quiz_sessions) :
         LET s == req'.quiz_sessions[i]
             stored == SelectSession(sessions, s.session_id, req'.user)
         IN (/\ OnlySession(req'.quiz_sessions, i)
             /\ stored # <<>>
             /\ stored[1].updated_at > s.updated_at)
            => /\ sessions'[s.session_id] = sessions[s.session_id]
               /\ \E c \in SessionConflicts(resp', s) :
                    c.conflict.server_data = stored[1]
               /\ s.session_id \notin Range(resp'.sync_results.synced_sessions)]_vars

\* A stale version of a session stored as completed was answered with a
\* conflict, and the session is still stored as completed.
C2_Witness ==
  /\ phase = "done"
  /\ resp.status = 200
  /\ \E i \in 1..Len(req.quiz_sessions) :
       LET s == req.quiz_sessions[i]
       IN /\ s.status # "completed"
          /\ \E c \in SessionConflicts(resp, s) :
               /\ sessions[s.session_id] = <<c.conflict.server_data>>
               /\ c.conflict.server_data.status = "completed"
               /\ c.conflict.server_data.updated_at > s.updated_at

\* C3: a session stored for the owner with exactly the incoming updated_at
\* is stale: nothing is written for it, and it is reported as a conflict and
\* not as synced.
C3_EqualIsStale ==
  [][Answered200 =>
       \A i \in 1..Len(req'.quiz_sessions) :
         LET s == req'.quiz_sessions[i]
             stored == SelectSession(sessions, s.session_id, req'.user)
         IN (/\ OnlySession(req'.quiz_sessions, i)
             /\ stored # <<>>
             /\ stored[1].updated_at = s.updated_at)
            => /\ sessions'[s.session_id] = sessions[s.session_id]
               /\ SessionConflicts(resp', s) # {}
               /\ s.session_id \notin Range(resp'.sync_results.synced_sessions)]_vars

\* C4: a verbatim retry of the request answered last leaves both tables as
\* the first handling left them.
C4_ReplayKeepsStore ==
  [][replay' => sessions' = sessions /\ results' = results]_vars

\* A batch with a session and a result was retried and answered 200.
C4_Witness ==
  /\ replay
  /\ resp.status = 200
  /\ \E i \in 1..Len(req.quiz_sessions) :
       SessionStoredAs(sessions, req.user, req.quiz_sessions[i])
  /\ \E i \in 1..Len(req.quiz_results) :
       SelectResult(results, req.quiz_results[i].result_id, req.user) # <<>>

\* C5: the response to a verbatim retry reports every session of the batch
\* as a conflict and none as synced, and no result as failed.
C5_ReplayOutcomes ==
  (replay /\ resp.status = 200) =>
    /\ resp.sync_results.synced_sessions = <<>>
    /\ \A i \in 1..Len(req.quiz_sessions) :
         SessionConflicts(resp, req.quiz_sessions[i]) # {}
    /\ resp.sync_results.failed_results = <<>>

\* C6: a stored result never changes.
C6_ResultImmutable ==
  [][\A rid \in ResultIds : results[rid] # <<>> => results'[rid] = results[rid]]_vars

\* C7: a result whose result_id is stored for the owner is never reported in
\* failed_results or in conflicts.
C7_DuplicateNotFailed ==
  [][Answered200 =>
       \A i \in 1..Len(req'.quiz_results) :
         LET r == req'.quiz_results[i]
         IN SelectResult(results, r.result_id, req'.user) # <<>>
            => /\ r.result_id \notin Range(resp'.sync_results.failed_results)
               /\ \A c \in Range(resp'.sync_results.conflicts) :
                    ~(c.type = "result" /\ c.id = r.result_id)]_vars

\* ---- claims about failing storage queries (FailSpec)
\* The list without its item k.
Remove(list, k) ==
  [i \in 1..(Len(list) - 1) |-> IF i < k THEN list[i] ELSE list[i + 1]]

\* What a report says about the item(s) with key id of one type.
OutcomeOf(syncResults, type, id) ==
  [synced |-> SelectSeq(IF type = "session" THEN syncResults.synced_sessions
                        ELSE syncResults.synced_results, LAMBDA x : x = id),
   failed |-> SelectSeq(IF type = "session" THEN syncResults.failed_sessions
                        ELSE syncResults.failed_results, LAMBDA x : x = id),
   conflicts |-> SelectSeq(syncResults.conflicts,
                           LAMBDA c : c.type = type /\ c.id = id)]

\* A query of session item k / result item k of the request failed.
SessionQueryFailed(f, k) == f.sessions[k].read \/ f.sessions[k].write
ResultQueryFailed(f, k) == f.results[k].read \/ f.results[k].write

\* The handling of request r under failures f, from the two tables before,
\* agrees with the tables after and the report on every key but sid / rid.
AgreesButSession(before, beforeResults, r, f, sid, after, afterResults, report) ==
  LET alt == Reconcile(before, beforeResults, r.user, r, f)
  IN /\ \A x \in SessionIds \ {sid} :
          /\ after[x] = alt.sessions[x]
          /\ OutcomeOf(report, "session", x) = OutcomeOf(alt.syncResults, "session", x)
     /\ \A y \in ResultIds :
          /\ afterResults[y] = alt.results[y]
          /\ OutcomeOf(report, "result", y) = OutcomeOf(alt.syncResults, "result", y)

AgreesButResult(before, beforeResults, r, f, rid, after, afterResults, report) ==
  LET alt == Reconcile(before, beforeResults, r.user, r, f)
  IN /\ \A x \in SessionIds :
          /\ after[x] = alt.sessions[x]
          /\ OutcomeOf(report, "session", x) = OutcomeOf(alt.syncResults, "session", x)
     /\ \A y \in ResultIds \ {rid} :
          /\ afterResults[y] = alt.results[y]
          /\ OutcomeOf(report, "result", y) = OutcomeOf(alt.syncResults, "result", y)

\* C9: every item of the batch is filed exactly once, and for an item k one
\* of whose queries failed, the rows and the reported outcomes of the items
\* with another id are those of the same request without item k.
C9_PerItemIsolation ==
  [][Answered200 =>
       LET r == req'
           f == fails'
           report == resp'.sync_results
       IN /\ Len(report.synced_sessions) + Len(report.failed_sessions)
               = Len(r.quiz_sessions)
          /\ Len(report.synced_results) + Len(report.failed_results)
               = Len(r.quiz_results)
          /\ \A x \in SessionIds :
               Len(OutcomeOf(report, "session", x).synced)
                 + Len(OutcomeOf(report, "session", x).failed)
               = Cardinality({i \in 1..Len(r.quiz_sessions) :
                                r.quiz_sessions[i].session_id = x})
          /\ \A y \in ResultIds :
               Len(OutcomeOf(report, "result", y).synced)
                 + Len(OutcomeOf(report, "result", y).failed)
               = Cardinality({i \in 1..Len(r.quiz_results) :
                                r.quiz_results[i].result_id = y})
          /\ \A k \in 1..Len(r.quiz_sessions) :
               SessionQueryFailed(f, k) =>
                 AgreesButSession(sessions, results,
                   [r EXCEPT !.quiz_sessions = Remove(@, k)],
                   [f EXCEPT !.sessions = Remove(@, k)],
                   r.quiz_sessions[k].session_id, sessions', results', report)
          /\ \A k \in 1..Len(r.quiz_results) :
               ResultQueryFailed(f, k) =>
                 AgreesButResult(sessions, results,
                   [r EXCEPT !.quiz_results = Remove(@, k)],
                   [f EXCEPT !.results = Remove(@, k)],
                   r.quiz_results[k].result_id, sessions', results', report)]_vars

\* The first item of a batch met a failed query, and a later item with
\* another id was stored and reported as synced.
C9_Witness ==
  /\ phase = "done"
  /\ resp.status = 200
  /\ Len(req.quiz_sessions) = 2
  /\ SessionQueryFailed(fails, 1)
  /\ ~SessionQueryFailed(fails, 2)
  /\ req.quiz_sessions[1].session_id # req.quiz_sessions[2].session_id
  /\ req.quiz_sessions[2].session_id \in Range(resp.sync_results.synced_sessions)
  /\ SessionStoredAs(sessions, req.user, req.quiz_sessions[2])

\* Item i is the only one of the list with its key.
OnlyResult(list, i) ==
  \A j \in 1..Len(list) : list[j].result_id = list[i].result_id => j = i

\* A query that syncQuizSession ran for session s failed: its SELECT, or the
\* UPDATE or INSERT that follows unless the rows read show a conflict.
SessionStorageFailed(table, userId, s, itemFailure) ==
  LET stored == SelectSession(table, s.session_id, userId)
  IN \/ itemFailure.read
     \/ /\ itemFailure.write
        /\ ~(stored # <<>> /\ stored[1].updated_at > s.updated_at)

\* A query that syncQuizResult ran for result r failed: its SELECT, or the
\* INSERT that follows when no row was read.
ResultStorageFailed(table, userId, r, itemFailure) ==
  \/ itemFailure.read
  \/ itemFailure.write /\ SelectResult(table, r.result_id, userId) = <<>>

\* C10: exactly the sessions and results one of whose storage queries failed
\* are reported in the failed lists, and none of them in the synced lists.
C10_FailureReported ==
  [][Answered200 =>
       /\ \A k \in 1..Len(req'.quiz_sessions) :
            LET s == req'.quiz_sessions[k]
            IN OnlySession(req'.quiz_sessions, k) =>
                 /\ SessionStorageFailed(sessions, req'.user, s, fails'.sessions[k])
                      <=> s.session_id \in Range(resp'.sync_results.failed_sessions)
                 /\ SessionStorageFailed(sessions, req'.user, s, fails'.sessions[k])
                      => s.session_id \notin Range(resp'.sync_results.synced_sessions)
       /\ \A k \in 1..Len(req'.quiz_results) :
            LET r == req'.quiz_results[k]
            IN OnlyResult(req'.quiz_results, k) =>
                 /\ ResultStorageFailed(results, req'.user, r, fails'.results[k])
                      <=> r.result_id \in Range(resp'.sync_results.failed_results)
                 /\ ResultStorageFailed(results, req'.user, r, fails'.results[k])
                      => r.result_id \notin Range(resp'.sync_results.synced_results)]_vars

\* ---- claims about concurrent requests (ConcSpec)
\* C8: when two requests with versions of one session_id have both been
\* answered, the stored session is not older than either version: no write
\* of the older version has replaced or shut out the newer one.
C8_NoLostUpdate ==
  (\A p \in Procs : procs[p].pc = "answered") =>
    LET s1 == procs["p1"].request.quiz_sessions[1]
        s2 == procs["p2"].request.quiz_sessions[1]
    IN s1.session_id = s2.session_id =>
         /\ sessions[s1.session_id] # <<>>
         /\ sessions[s1.session_id][1].updated_at >= s1.updated_at
         /\ sessions[s1.session_id][1].updated_at >= s2.updated_at

\* ---- claims about the endpoints together (ApiSpec)
\* The rows a response returns: of a sync response the delta rows and the
\* server_data of its conflicts, of a GET response the sessions and the
\* results embedded in them.
ReturnedRows(request, response) ==
  IF response.status # 200 THEN {}
  ELSE IF request.route = "POST /sync-progress"
    THEN Range(response.server_data.quiz_sessions)
         \cup Range(response.server_data.quiz_results)
         \cup {c.conflict.server_data : c \in Range(response.sync_results.conflicts)}
  ELSE IF request.route = "GET /sync-progress"
    THEN {e.session : e \in Range(response.sessions)}
         \cup UNION {e.quiz_results : e \in Range(response.sessions)}
  ELSE {}

\* Every key of the table whose rows this step changes held no row or a row
\* of userId before, and holds a row of userId after.
WritesOnlyOf(userId, before, after) ==
  \A k \in DOMAIN before :
    after[k] # before[k] =>
      /\ before[k] = <<>> \/ before[k][1].user_id = userId
      /\ after[k] # <<>> /\ after[k][1].user_id = userId

\* C11: a POST, GET or PUT on /sync-progress by an authenticated owner
\* writes rows of that owner only and returns rows of that owner only.
C11_OwnerIsolation ==
  [][(/\ phase' = "done"
      /\ req'.route \in {"POST /sync-progress", "GET /sync-progress",
                         "PUT /sync-progress"}
      /\ req'.user # NULL)
     => /\ WritesOnlyOf(req'.user, sessions, sessions')
        /\ WritesOnlyOf(req'.user, results, results')
        /\ \A row \in ReturnedRows(req', resp') : row.user_id = req'.user]_vars

\* C12: over the writes of every path (POST and PUT on /sync-progress, the
\* manual-sync upload) the stored updated_at of a session never decreases.
C12_UpdatedAtMonotone ==
  [][\A sid \in SessionIds :
       (sessions[sid] # <<>> /\ sessions'[sid] # <<>>)
         => sessions'[sid][1].updated_at >= sessions[sid][1].updated_at]_vars

\* C13: after every write, a stored session with status completed has its
\* completed_at set; a completed_at is set only by a write that leaves the
\* status completed; and a completed_at once set is never changed or cleared.
C13_CompletedAtOnce ==
  [][\A sid \in SessionIds :
       sessions'[sid] # <<>> =>
         LET after == sessions'[sid][1]
             before == IF sessions[sid] # <<>> THEN sessions[sid][1].completed_at
                       ELSE <<>>
         IN /\ after.status = "completed" => after.completed_at # <<>>
            /\ (after.completed_at # <<>> /\ before = <<>>)
                 => after.status = "completed"
            /\ before # <<>> => after.completed_at = before]_vars

\* ------------------------------------------------------------------ the delta
\* A POST /sync-progress has just been answered 200.
Pulled == phase = "done" /\ req.route = "POST /sync-progress" /\ resp.status = 200

\* The stored rows of the request's owner that are newer than its watermark.
PendingSessions ==
  {row \in Rows(sessions) : row.user_id = req.user /\ row.updated_at > req.last_sync_at}
PendingResults ==
  {row \in Rows(results) : row.user_id = req.user /\ row.created_at > req.last_sync_at}

\* C14: the server_data of a 200 response to a POST /sync-progress of an
\* owner with watermark W holds only stored sessions of that owner with
\* updated_at > W and only stored results of that owner with created_at > W,
\* never a record with a timestamp <= W; each list holds as many of them as
\* there are, up to its limit (50 sessions, 100 results).
C14_DeltaContent ==
  Pulled =>
    /\ Range(resp.server_data.quiz_sessions) \subseteq PendingSessions
    /\ Range(resp.server_data.quiz_results) \subseteq PendingResults
    /\ Len(resp.server_data.quiz_sessions) =
         Min(Cardinality(PendingSessions), DeltaSessionLimit)
    /\ Len(resp.server_data.quiz_results) =
         Min(Cardinality(PendingResults), DeltaResultLimit)

\* A pull of owner A with a watermark above its oldest records is answered
\* while more sessions and more results than the limits are newer than the
\* watermark, and owner B holds a session newer than the watermark.
C14_Witness ==
  /\ Pulled
  /\ req.user = "A"
  /\ Cardinality(PendingSessions) > DeltaSessionLimit
  /\ Cardinality(PendingResults) > DeltaResultLimit
  /\ \E row \in Rows(sessions) : row.user_id = "A" /\ row.updated_at <= req.last_sync_at
  /\ \E row \in Rows(results) : row.user_id = "A" /\ row.created_at <= req.last_sync_at
  /\ \E row \in Rows(sessions) : row.user_id = "B" /\ row.updated_at > req.last_sync_at

\* The list ascends by column.
Ascending(list, column) ==
  \A i, j \in 1..Len(list) : i < j => list[i][column] <= list[j][column]

\* The rows of list are the oldest of the pending rows: no pending row left
\* out is older than a row returned.
OldestOf(list, pending, column) ==
  \A out \in pending \ Range(list) : \A got \in Range(list) : got[column] <= out[column]

\* C15: the sessions of the delta ascend by updated_at and its results by
\* created_at, and when more rows than the limit are pending the rows
\* returned are the oldest pending ones.  (The order by id among equal
\* timestamps is not part of the formula.)
C15_OldestFirst ==
  Pulled =>
    /\ Ascending(resp.server_data.quiz_sessions, "updated_at")
    /\ Ascending(resp.server_data.quiz_results, "created_at")
    /\ OldestOf(resp.server_data.quiz_sessions, PendingSessions, "updated_at")
    /\ OldestOf(resp.server_data.quiz_results, PendingResults, "created_at")

\* Session sid is stored, and pending for the pull just answered.
SessionPending(sid) ==
  Pulled /\ sessions[sid] # <<>> /\ sessions[sid][1] \in PendingSessions
\* Session sid is in the delta of the pull just answered.
SessionReceived(sid) ==
  Pulled /\ sessions[sid] # <<>>
         /\ sessions[sid][1] \in Range(resp.server_data.quiz_sessions)
ResultPending(rid) ==
  Pulled /\ results[rid] # <<>> /\ results[rid][1] \in PendingResults
ResultReceived(rid) ==
  Pulled /\ results[rid] # <<>>
         /\ results[rid][1] \in Range(resp.server_data.quiz_results)

\* C16: a device that keeps pulling eventually receives every record that
\* was pending at one of its pulls, also when more records than the limit
\* were pending: no pending record is left out for ever.
C16_CatchUp ==
  /\ \A sid \in HistorySessionIds : SessionPending(sid) ~> SessionReceived(sid)
  /\ \A rid \in HistoryResultIds : ResultPending(rid) ~> ResultReceived(rid)

\* C17: the server_timestamp of a sync response is not later than the
\* instant at which its delta queries read the store, so a session of the
\* owner committed after that read, which the response does not carry, is
\* newer than the server_timestamp: the next sync, with the server_timestamp
\* as its watermark, returns it.
C17_NoSkippedCommit ==
  [][\A p \in Procs :
       (procs[p].pc = "delta" /\ procs'[p].pc = "answered") =>
         \A row \in Rows(sessions') :
           (/\ row.user_id = procs[p].request.user
            /\ row.updated_at > procs[p].delta_at
            /\ row \notin Range(procs[p].quiz_sessions))
           => row.updated_at > procs'[p].server_timestamp]_vars

\* A pull has been answered and the next request, a pull of the same owner
\* with the server_timestamp of that answer as its watermark, is answered in
\* this step, which writes nothing.
SecondPull ==
  /\ Pulled
  /\ Pulled'
  /\ req'.user = req.user
  /\ req'.last_sync_at = resp.server_data.server_timestamp
  /\ sessions' = sessions
  /\ results' = results

\* The second answer repeats no session and no result of the first.
NothingRepeated ==
  /\ Range(resp'.server_data.quiz_sessions)
       \cap Range(resp.server_data.quiz_sessions) = {}
  /\ Range(resp'.server_data.quiz_results)
       \cap Range(resp.server_data.quiz_results) = {}

\* No stored record of owner userId carries a timestamp later than t.
NoneNewerThan(userId, t) ==
  /\ \A row \in Rows(sessions) : row.user_id = userId => row.updated_at <= t
  /\ \A row \in Rows(results) : row.user_id = userId => row.created_at <= t

\* C18 as stated: with no writes between two pulls, the second pull, whose
\* watermark is the server_timestamp of the first, returns no session and no
\* result the first returned.
C18_AsStated == [][SecondPull => NothingRepeated]_vars

\* C18, amended: the same, when no stored record of the owner carries a
\* timestamp later than the server_timestamp of the first pull (timestamps
\* are the devices', and a device's clock can run ahead of the server's).
C18_NoRepeat ==
  [][(SecondPull /\ NoneNewerThan(req.user, resp.server_data.server_timestamp))
       => NothingRepeated]_vars

\* Owner A, who holds records, none newer than the server's clock, has pulled
\* a second time with the server_timestamp of its first pull.
C18_Witness ==
  /\ Pulled
  /\ req.user = "A"
  /\ req.last_sync_at = clock
  /\ clock \notin Watermarks
  /\ NoneNewerThan("A", clock)
  /\ \E row \in Rows(sessions) : row.user_id = "A"
  /\ resp.server_data.quiz_sessions = <<>>

\* C19: a POST /sync-progress with more than 100 sessions or more than 1000
\* results is answered 400 and stores nothing: the tables are as they were
\* before the request.
C19_LargeBatchRejected ==
  [][(/\ phase' = "done"
      /\ req'.route = "POST /sync-progress"
      /\ \/ Len(req'.quiz_sessions) > MaxSessionsPerRequest
         \/ Len(req'.quiz_results) > MaxResultsPerRequest)
     => /\ resp'.status = 400
        /\ sessions' = sessions
        /\ results' = results]_vars

\* C20: a POST /sync-progress whose principal cannot be resolved is answered
\* 401, one whose body fails the schema is answered 400; either answer is the
\* error response alone, which carries nothing read from the tables, and the
\* stored sessions and results are as they were before the request.
C20_RejectedTouchesNothing ==
  [][(/\ phase' = "done"
      /\ req'.route = "POST /sync-progress"
      /\ (req'.user = NULL \/ ~req'.valid))
     => /\ resp' = IF req'.user = NULL
                     THEN ErrorResponse(401, "AUTHENTICATION_REQUIRED")
                     ELSE ErrorResponse(400, "INVALID_REQUEST")
        /\ sessions' = sessions
        /\ results' = results]_vars

\* A body that fails the schema, from owner A, carrying a session and a
\* result, has been answered 400 over a store that holds sessions and does
\* not hold that result.
C20_Witness ==
  /\ phase = "done"
  /\ req.route = "POST /sync-progress"
  /\ req.user = "A"
  /\ ~req.valid
  /\ Len(req.quiz_sessions) > 0
  /\ Len(req.quiz_results) > 0
  /\ resp = ErrorResponse(400, "INVALID_REQUEST")
  /\ Rows(sessions) # {}
  /\ results[req.quiz_results[1].result_id] = <<>>

\* ---- claims about the report and the frame of a request
\* C21: a POST /sync-progress during which every storage query fails (the
\* SELECT and the write of every item, both delta queries) is answered 500,
\* not with a success response.
C21_OutageIs500 ==
  [][(/\ phase' = "done"
      /\ req'.route = "POST /sync-progress"
      /\ fails' = AllFail(req'))
     => resp'.status = 500]_vars

\* The report names the item with key id of one type in exactly one of its
\* lists: synced, failed, or conflicts (with the stored and the incoming
\* record).
InOneCategory(syncResults, type, id, item) ==
  LET outcome == OutcomeOf(syncResults, type, id)
  IN /\ Len(outcome.synced) + Len(outcome.failed) + Len(outcome.conflicts) = 1
     /\ \A i \in 1..Len(outcome.conflicts) :
          outcome.conflicts[i].conflict.client_data = item

\* C22: a validated POST /sync-progress (sync enabled) is answered 200, and
\* its report places every submitted session id and result id (that occurs
\* once in the batch) in exactly one category: accepted, rejected as stale
\* with the conflicting pair, or failed; a stale rejection is a conflict and
\* not a failure.
C22_DisjointAccounting ==
  [][(/\ phase' = "done"
      /\ req'.route = "POST /sync-progress"
      /\ req'.user # NULL
      /\ req'.valid
      /\ authConfig'.auto_sync_enabled)
     => /\ resp'.status = 200
        /\ \A k \in 1..Len(req'.quiz_sessions) :
             OnlySession(req'.quiz_sessions, k) =>
               InOneCategory(resp'.sync_results, "session",
                             req'.quiz_sessions[k].session_id, req'.quiz_sessions[k])
        /\ \A k \in 1..Len(req'.quiz_results) :
             OnlyResult(req'.quiz_results, k) =>
               InOneCategory(resp'.sync_results, "result",
                             req'.quiz_results[k].result_id, req'.quiz_results[k])]_vars

\* The ids of the batch's sessions differ pairwise, and so do those of its
\* results.
DistinctIds(request) ==
  /\ \A k \in 1..Len(request.quiz_sessions) : OnlySession(request.quiz_sessions, k)
  /\ \A k \in 1..Len(request.quiz_results) : OnlyResult(request.quiz_results, k)

\* The request with its two lists rearranged by the permutations ps and pr.
Permuted(request, ps, pr) ==
  [request EXCEPT
     !.quiz_sessions = [i \in 1..Len(request.quiz_sessions) |->
                          request.quiz_sessions[ps[i]]],
     !.quiz_results = [i \in 1..Len(request.quiz_results) |->
                         request.quiz_results[pr[i]]]]

\* C23: for a push batch with pairwise different session_ids and pairwise
\* different result_ids, the tables after the request and the outcome of
\* every item are those that every other arrangement of the two lists,
\* handled from the same tables, leads to.
C23_OrderIndependent ==
  [][(Answered200 /\ req'.route = "POST /sync-progress" /\ DistinctIds(req'))
     => \A ps \in Permutations(1..Len(req'.quiz_sessions)),
           pr \in Permutations(1..Len(req'.quiz_results)) :
          \A permuted \in {Permuted(req', ps, pr)} \ {req'} :
          \A rec \in {Reconcile(sessions, results, req'.user, permuted,
                                NoFailures(permuted))} :
             /\ rec.sessions = sessions'
             /\ rec.results = results'
             /\ \A k \in 1..Len(req'.quiz_sessions) :
                  OutcomeOf(rec.syncResults, "session", req'.quiz_sessions[k].session_id)
                    = OutcomeOf(resp'.sync_results, "session",
                                req'.quiz_sessions[k].session_id)
             /\ \A k \in 1..Len(req'.quiz_results) :
                  OutcomeOf(rec.syncResults, "result", req'.quiz_results[k].result_id)
                    = OutcomeOf(resp'.sync_results, "result",
                                req'.quiz_results[k].result_id)]_vars

\* A batch of two sessions with different ids has been answered: its first
\* session was rejected as stale, its second accepted.
C23_Witness ==
  /\ phase = "done"
  /\ req.route = "POST /sync-progress"
  /\ resp.status = 200
  /\ Len(req.quiz_sessions) = 2
  /\ DistinctIds(req)
  /\ resp.sync_results.failed_sessions = <<req.quiz_sessions[1].session_id>>
  /\ resp.sync_results.synced_sessions = <<req.quiz_sessions[2].session_id>>

\* C24: a PUT /sync-progress whose updates name a field outside the
\* allow-list is rejected and leaves the stored sessions as they were; an
\* accepted update changes, in the session it names, only allow-listed
\* fields named in the request and updated_at, and no other session.
C24_AllowList ==
  [][(/\ phase' = "done"
      /\ req'.route = "PUT /sync-progress"
      /\ req'.user # NULL
      /\ "updates" \in DOMAIN req')
     => /\ ~(DOMAIN req'.updates \subseteq allowedFields)
             => (resp'.status # 200 /\ sessions' = sessions)
        /\ resp'.status = 200
             => /\ \A sid \in SessionIds \ {req'.session_id} :
                     sessions'[sid] = sessions[sid]
                /\ sessions[req'.session_id] # <<>>
                /\ \A field \in DOMAIN sessions[req'.session_id][1] :
                     sessions'[req'.session_id][1][field]
                         # sessions[req'.session_id][1][field]
                       => field \in (DOMAIN req'.updates \cap allowedFields)
                                      \cup {"updated_at"}]_vars

\* C25: every stored result's session_id names a stored session, and a POST
\* /sync-progress that carries a result whose session is not stored when the
\* request has been handled does not insert it and reports it as failed.
C25_ReferentialIntegrity ==
  [][/\ \A rid \in ResultIds : \A i \in 1..Len(results'[rid]) :
          sessions'[results'[rid][i].session_id] # <<>>
     /\ (Answered200 /\ req'.route = "POST /sync-progress")
          => \A i \in 1..Len(req'.quiz_results) :
               LET result == req'.quiz_results[i]
               IN sessions'[result.session_id] = <<>>
                    => /\ results'[result.result_id] = results[result.result_id]
                       /\ result.result_id
                            \in Range(resp'.sync_results.failed_results)]_vars

\* The session ids of the rows a response returns in server_data.
ReturnedSessionIds(response) ==
  {response.server_data.quiz_sessions[k].session_id :
     k \in 1..Len(response.server_data.quiz_sessions)}

\* C26: within one POST /sync-progress the batch is reconciled before the
\* delta is read: a session the response reports as synced whose updated_at
\* is later than the request's last_sync_at is stored for the owner and is
\* among the sessions of the same response's server_data (the owner having
\* no more than the limit of sessions newer than last_sync_at).
C26_PushBeforePull ==
  [][(Answered200 /\ req'.route = "POST /sync-progress")
     => \A i \in 1..Len(req'.quiz_sessions) :
          LET s == req'.quiz_sessions[i]
          IN (/\ s.session_id \in Range(resp'.sync_results.synced_sessions)
              /\ s.updated_at > req'.last_sync_at
              /\ Cardinality({row \in Rows(sessions') :
                                /\ row.user_id = req'.user
                                /\ row.updated_at > req'.last_sync_at})
                   <= DeltaSessionLimit)
             => /\ SelectSession(sessions', s.session_id, req'.user) # <<>>
                /\ s.session_id \in ReturnedSessionIds(resp')]_vars

\* The columns of a stored session that no accepted update may touch.
ImmutableFields ==
  {"session_id", "user_id", "quiz_type", "category", "total_questions",
   "started_at"}

\* C27: a POST /sync-progress leaves every session that was stored before it
\* stored, with its session_id, owner, quiz_type, category, total_questions
\* and started_at as they were, whatever the uploaded version carries in
\* them: an accepted newer version replaces the mutable fields only.
C27_AcceptedUpdateFrame ==
  [][(Answered200 /\ req'.route = "POST /sync-progress")
     => \A sid \in SessionIds :
          sessions[sid] # <<>>
            => /\ Len(sessions'[sid]) = 1
               /\ \A field \in ImmutableFields :
                    sessions'[sid][1][field] = sessions[sid][1][field]]_vars

\* A newer version of a stored session was accepted and written whose
\* quiz_type, category, total_questions and started_at differ from the
\* stored ones.
C27_Witness ==
  /\ phase = "done"
  /\ resp.status = 200
  /\ \E i \in 1..Len(req.quiz_sessions) :
       LET s == req.quiz_sessions[i]
           rows == SelectSession(sessions, s.session_id, req.user)
       IN /\ s.session_id \in Range(resp.sync_results.synced_sessions)
          /\ rows # <<>>
          /\ rows[1].updated_at = s.updated_at
          /\ rows[1].status = s.status
          /\ rows[1].quiz_type # s.quiz_type
          /\ rows[1].category # s.category
          /\ rows[1].total_questions # s.total_questions
          /\ rows[1].started_at # s.started_at

\* The latest of a non-empty set of timestamps.
Newest(stamps) == CHOOSE t \in stamps : \A u \in stamps : u <= t

\* The updated_at of the versions of session sid a batch carries.
SubmittedStamps(list, sid) ==
  {list[i].updated_at : i \in {j \in 1..Len(list) : list[j].session_id = sid}}

\* C28: the stored session converges to the newest version submitted.  Step
\* by step: after each POST /sync-progress (one at a time, no storage
\* failure) every session_id of the batch is stored, with the latest
\* updated_at among what was stored under that id before the push and the
\* versions the push submits; by induction over the pushes, the latest
\* updated_at submitted so far.
C28_ConvergesToNewest ==
  [][(Answered200 /\ req'.route = "POST /sync-progress")
     => \A sid \in SessionIds :
          SubmittedStamps(req'.quiz_sessions, sid) # {}
            => /\ sessions'[sid] # <<>>
               /\ sessions'[sid][1].updated_at
                    = Newest(SubmittedStamps(req'.quiz_sessions, sid)
                               \cup {sessions[sid][k].updated_at :
                                       k \in 1..Len(sessions[sid])})]_vars

\* C29: a device that adopts every server_timestamp it is answered as its
\* next watermark and keeps pulling is eventually returned every session
\* another device of its owner uploads, whatever updated_at that device
\* stamped on it: a stored session is in the server_data of one of the
\* pulls that follow.
C29_DeliveredToOtherDevice ==
  \A sid \in SessionIds :
    (sessions[sid] # <<>>) ~> (Pulled /\ sid \in ReturnedSessionIds(resp))

\* C30: a result that a POST /sync-progress stores is never attached to a
\* session of another owner: the stored session its session_id names, if
\* any, belongs to the owner the result is stored for.
C30_ResultOnOwnSession ==
  [][(Answered200 /\ req'.route = "POST /sync-progress")
     => \A rid \in ResultIds :
          results'[rid] # results[rid]
            => \A i \in 1..Len(results'[rid]) :
                 LET result == results'[rid][i]
                 IN \A k \in 1..Len(sessions'[result.session_id]) :
                      sessions'[result.session_id][k].user_id = result.user_id]_vars

\* How many times id stands in the list.
Occurrences(list, id) == Cardinality({i \in 1..Len(list) : list[i] = id})

\* C31: in every 200 response to a POST /sync-progress, conflicts_resolved is
\* true exactly when conflicts is empty; the id of every conflict entry is in
\* the failed list of its type; and every submitted item is filed once, as
\* synced or as failed: an id stands in the two lists together as many times
\* as the batch carries it.
C31_ResponseAccounting ==
  Pulled =>
    LET sr == resp.sync_results
    IN /\ resp.conflicts_resolved = (sr.conflicts = <<>>)
       /\ \A k \in 1..Len(sr.conflicts) :
            /\ sr.conflicts[k].type \in {"session", "result"}
            /\ sr.conflicts[k].type = "session"
                 => sr.conflicts[k].id \in Range(sr.failed_sessions)
            /\ sr.conflicts[k].type = "result"
                 => sr.conflicts[k].id \in Range(sr.failed_results)
       /\ \A sid \in SessionIds :
            Occurrences(sr.synced_sessions, sid) + Occurrences(sr.failed_sessions, sid)
              = Occurrences([i \in 1..Len(req.quiz_sessions) |->
                               req.quiz_sessions[i].session_id], sid)
       /\ \A rid \in ResultIds :
            Occurrences(sr.synced_results, rid) + Occurrences(sr.failed_results, rid)
              = Occurrences([i \in 1..Len(req.quiz_results) |->
                               req.quiz_results[i].result_id], rid)

\* A batch was answered with one item synced and one rejected as a conflict.
C31_Witness ==
  /\ Pulled
  /\ ~resp.conflicts_resolved
  /\ Len(resp.sync_results.conflicts) = 1
  /\ Len(resp.sync_results.failed_sessions) + Len(resp.sync_results.failed_results) = 1
  /\ Len(resp.sync_results.synced_sessions) + Len(resp.sync_results.synced_results) = 1

\* C32: a POST /sync-progress of a resolved principal with a valid body,
\* handled under a configuration snapshot with auto_sync_enabled = false, is
\* answered 400 SYNC_DISABLED, carries no server_data and leaves both tables
\* as they were; when the remote configuration could not be fetched the
\* sync is enabled and the request is answered 200.
C32_KillSwitch ==
  [][(/\ phase' = "done"
      /\ req'.route = "POST /sync-progress"
      /\ req'.user # NULL
      /\ req'.valid
      /\ "remote_config" \in DOMAIN fails')
     => /\ (fails'.remote_config.fetched /\ fails'.remote_config.value = "false")
             => ~authConfig'.auto_sync_enabled
        /\ ~authConfig'.auto_sync_enabled
             => /\ resp' = ErrorResponse(400, "SYNC_DISABLED")
                /\ sessions' = sessions
                /\ results' = results
        /\ ~fails'.remote_config.fetched
             => /\ authConfig'.auto_sync_enabled
                /\ resp'.status = 200]_vars

\* With a session stored, a newer version of it was posted while the remote
\* configuration had the sync switched off, and was refused.
C32_Witness ==
  /\ phase = "done"
  /\ "remote_config" \in DOMAIN fails
  /\ fails.remote_config = [fetched |-> TRUE, value |-> "false"]
  /\ resp = ErrorResponse(400, "SYNC_DISABLED")
  /\ \E i \in 1..Len(req.quiz_sessions) :
       LET rows == SelectSession(sessions, req.quiz_sessions[i].session_id, req.user)
       IN rows # <<>> /\ rows[1].updated_at < req.quiz_sessions[i].updated_at

\* C33: a PUT /sync-progress of a resolved principal for a session_id that is
\* not stored, or is stored under another owner, is answered 400
\* SESSION_NOT_FOUND; one for a session of the principal whose updates name
\* no allow-listed field is answered 400 NO_VALID_UPDATES; in both cases no
\* stored session and no stored result is changed.
C33_PutErrorsKeepStore ==
  [][(/\ phase' = "done"
      /\ req'.route = "PUT /sync-progress"
      /\ req'.user # NULL
      /\ "updates" \in DOMAIN req')
     => LET owned == SelectSession(sessions, req'.session_id, req'.user) # <<>>
            named == DOMAIN req'.updates \cap allowedFields
        IN /\ ~owned
                => /\ resp' = ErrorResponse(400, "SESSION_NOT_FOUND")
                   /\ sessions' = sessions
                   /\ results' = results
           /\ (owned /\ named = {})
                => /\ resp' = ErrorResponse(400, "NO_VALID_UPDATES")
                   /\ sessions' = sessions
                   /\ results' = results]_vars

\* A PUT with an allow-listed field for a session stored under another
\* owner has been refused.
C33_Witness ==
  /\ phase = "done"
  /\ req.route = "PUT /sync-progress"
  /\ req.user # NULL
  /\ "updates" \in DOMAIN req
  /\ DOMAIN req.updates \cap allowedFields # {}
  /\ sessions[req.session_id] # <<>>
  /\ sessions[req.session_id][1].user_id # req.user
  /\ resp = ErrorResponse(400, "SESSION_NOT_FOUND")

\* C34: a POST /manual-sync without a resolved principal changes no stored
\* result, no stored session and no user's preferences, whatever its body
\* carries; with a resolved principal, every session and result row the
\* request writes is stored under the principal's id and no other user's
\* preferences change.
C34_GuestWritesNothing ==
  [][(phase' = "done" /\ req'.route = "POST /manual-sync")
     => /\ req'.user = NULL
             => /\ sessions' = sessions
                /\ results' = results
                /\ preferences' = preferences
        /\ req'.user # NULL
             => /\ \A sid \in SessionIds :
                     sessions'[sid] # sessions[sid]
                       => \A k \in 1..Len(sessions'[sid]) :
                            sessions'[sid][k].user_id = req'.user
                /\ \A rid \in ResultIds :
                     results'[rid] # results[rid]
                       => \A k \in 1..Len(results'[rid]) :
                            results'[rid][k].user_id = req'.user
                /\ \A u \in Owners \ {req'.user} :
                     preferences'[u] = preferences[u]]_vars

\* C35: a trigger with a throttle window T that was last recorded as executed
\* at t is throttled when it is called before t + T, on the manager that
\* lives on as through triggerScreenView and triggerNetworkRestore: the call
\* returns success with empty results, runs no action and records no
\* last-sync time.
C35_Throttled ==
  [][(/\ triggers'.call # triggers.call
      /\ triggers'.now = triggers.now)
     => LET call == triggers'.call
            T == SYNC_TRIGGERS[call.trigger].throttle
            t == triggers.recorded[call.trigger]
        IN (T # 0 /\ t # 0 /\ call.at < t + T)
             => /\ call.success
                /\ call.results = <<>>
                /\ triggers'.recorded = triggers.recorded
                /\ triggers'.manager = triggers.manager]_vars

====
